---- MODULE Spec2Model ----
(***************************************************************************)
(* A model of the jobber-autonomous-agent pipeline.                        *)
(*                                                                         *)
(*   Part I   WebhookServer (src/src/server/WebhookServer.js): the intake  *)
(*            routes, queueWebhook, the processQueue drain loop and the    *)
(*            statistics, shutdown.  Specifications Spec, LiveSpec and     *)
(*            ShutdownSpec.                                                *)
(*   Part II  DecisionEngine (src/src/agent/DecisionEngine.js): feature    *)
(*            extraction, rule evaluation, confidence scoring and the      *)
(*            decision history, dispatch.  Specifications RuleSpec,        *)
(*            ConfidenceSpec and EngineSpec.                               *)
(*                                                                         *)
(* JavaScript runs every handler to its next await without interruption,   *)
(* so one action is one such run: a whole route handler (including the     *)
(* synchronous prefix of processQueue that it starts), or one resumption   *)
(* of the drain loop after an await.                                       *)
(***************************************************************************)
EXTENDS Integers, Sequences, FiniteSets, TLC

VARIABLES
    webhookQueue,   \* WebhookServer.webhookQueue: sequence of queue entries
    processing,     \* WebhookServer.processing
    stats,          \* WebhookServer.stats
    drains,         \* the processQueue invocations that are past the guard
    reqs,           \* one record per HTTP request: its inputs, its response
                    \* and the history of the entry it created
    lifecycle,      \* whether the HTTP server accepts connections, and
                    \* where a shutdown() call stands
    env,            \* process.env.LEARNING_ENABLED === 'true'
    decisionHistory,\* DecisionEngine.decisionHistory
    analysis,       \* the arguments and the result of the last analyze call
    score,          \* the arguments and the result of the last
                    \* calculateConfidence call
    dispatch,       \* the arguments and the result of the last
                    \* executeDecisions call
    rateLimiter,    \* JobberAPI.rateLimiter: requests and resetTime
    callers,        \* one record per checkRateLimit call: where it stands
                    \* and when it was let through
    clock           \* Date.now(), in ticks

serverVars == <<webhookQueue, processing, stats, drains, reqs, lifecycle>>
apiVars == <<rateLimiter, callers, clock>>
engineVars == <<env, decisionHistory, analysis, score, dispatch, apiVars>>
vars == <<webhookQueue, processing, stats, drains, reqs, lifecycle,
          env, decisionHistory, analysis, score, dispatch,
          rateLimiter, callers, clock>>

(***************************************************************************)
(* Bounds of the model.                                                    *)
(***************************************************************************)
MaxRequests == 3        \* HTTP requests per behaviour
MaxAnalyses == 2        \* records the decision history grows to
maxRequests == 2        \* rateLimiter.maxRequests, 120 in the code (line 543)
WindowTicks == 2        \* the 60000 ms of a rate-limit window, in ticks
MaxClock == 5           \* ticks of the clock per behaviour
MaxCalls == 5           \* checkRateLimit calls per behaviour

(***************************************************************************)
(* Values.                                                                 *)
(***************************************************************************)
\* A numeric field that was never assigned (JavaScript undefined).
Undefined == -1

\* A string field that is absent from a payload (falsy under ||).
Absent == ""

RetryCeiling == 3       \* if (webhook.retries < 3)

\* The originating user of a payload: id and name, or neither.
PayloadUsers ==
    { [userId |-> "u-angelo", userName |-> "Angelo"],
      [userId |-> "u-austin", userName |-> "Austin"],
      [userId |-> Absent,     userName |-> Absent] }

Topics == {"JOB_CREATE", "CLIENT_UPDATE"}

\* How often agent.processWebhook throws for an entry before it returns:
\* attempt n throws iff n <= plan.  RetryCeiling stands for an entry that
\* fails on every attempt it can get.
FailPlans == {0, 1, RetryCeiling}

\* The inputs of an accepted POST /webhooks/jobber: every user and topic for
\* an event that is processed at once, one user and topic for an event whose
\* processing throws (the user and the topic play no part in the retry
\* logic, the outcome of the agent none in the per-user statistics).
JobberInputs ==
    { x \in [user : PayloadUsers, topic : Topics, plan : FailPlans] :
        x.plan = 0 \/ (x.user.userId = "u-angelo" /\ x.topic = "JOB_CREATE") }

\* The inputs of POST /test/webhook, bounded likewise.
TestInputs ==
    { x \in [user : PayloadUsers, plan : FailPlans] :
        x.plan = 0 \/ x.user.userId = Absent }

Signatures == {"valid", "invalid", "missing"}

(***************************************************************************)
(* JavaScript helpers.                                                     *)
(***************************************************************************)
\* a < b where a may be undefined: undefined converts to NaN, and every
\* comparison with NaN is false.
JsLess(a, b) == IF a = Undefined THEN FALSE ELSE a < b

\* A numeric field read without its || default.
JsOrNum_raw(a, d) == a

\* a || d for a numeric field.
JsOrNum(a, d) == IF a = Undefined \/ a = 0 THEN d ELSE a

\* a || d for a string field.
JsOrStr(a, d) == IF a = Absent THEN d ELSE a

\* Map.get(k) || 0
MapGetOr0(m, k) == IF k \in DOMAIN m THEN m[k] ELSE 0

\* Map.set(k, v)
MapSet(m, k, v) == [x \in DOMAIN m \cup {k} |-> IF x = k THEN v ELSE m[x]]

EmptyMap == [x \in {} |-> 0]

Pow2(n) == IF n <= 0 THEN 1 ELSE IF n = 1 THEN 2 ELSE IF n = 2 THEN 4 ELSE 8

RemoveAt(seq, i) == SubSeq(seq, 1, i - 1) \o SubSeq(seq, i + 1, Len(seq))

(***************************************************************************)
(* Part I.  WebhookServer.                                                 *)
(*                                                                         *)
(* The server state is threaded through the operators below as a record,   *)
(* so that a handler is the composition of the calls it makes, in the      *)
(* order of the code.                                                      *)
(***************************************************************************)
Server ==
    [webhookQueue |-> webhookQueue, processing |-> processing,
     stats |-> stats, drains |-> drains, reqs |-> reqs, lifecycle |-> lifecycle]

Commit(s) ==
    /\ webhookQueue' = s.webhookQueue
    /\ processing' = s.processing
    /\ stats' = s.stats
    /\ drains' = s.drains
    /\ reqs' = s.reqs
    /\ lifecycle' = s.lifecycle

\* validateWebhook: the signature middleware in front of POST /webhooks/jobber.
validateWebhook(sig) == sig = "valid"

NoEvent == [topic |-> Absent, userId |-> Absent, userName |-> Absent]

\* A request as it arrives: nothing answered, nothing queued.
NewRequest(route, sig, body, plan) ==
    [route |-> route, sig |-> sig, body |-> body, plan |-> plan,
     status |-> 0,          \* HTTP status sent, 0 while none is sent
     event |-> NoEvent,     \* the event that queueWebhook was called with
     fate |-> "none",       \* none, queued, inflight, processed, dropped
     attempts |-> 0,        \* calls of agent.processWebhook for the entry
     webhookFailed |-> 0,   \* webhookFailed events emitted for the entry
     ackAtHandoff |-> "none", \* at the first such call: was the response sent
     finalRetries |-> Undefined, \* the entry's retries field when processed
     answer |-> <<>>]       \* the body of the response to a read

\* res.status(code).json(...) / res.json(...)
respond(s, i, code) == [s EXCEPT !.reqs[i].status = code]

\* Line 213: agent.processWebhook(webhook.event, ...) is called.
handToAgent(s, w) ==
    [s EXCEPT !.reqs[w.id].attempts = @ + 1,
              !.reqs[w.id].fate = "inflight",
              !.reqs[w.id].ackAtHandoff =
                  IF @ # "none" THEN @
                  ELSE IF s.reqs[w.id].status = 0 THEN "unsent" ELSE "sent"]

\* Line 250, after the while loop: the drain d ends.
finishDrain_stuck(s, d) == [s EXCEPT !.drains = RemoveAt(@, d)]

finishDrain(s, d) ==
    [s EXCEPT !.processing = FALSE, !.drains = RemoveAt(@, d)]

\* The loop with pop() in the place of shift(): the newest entry first.
loopHead_pop(s, d) ==
    IF Len(s.webhookQueue) > 0
    THEN LET webhook == s.webhookQueue[Len(s.webhookQueue)]
         IN handToAgent(
                [s EXCEPT !.webhookQueue = SubSeq(@, 1, Len(@) - 1),
                          !.drains[d] = [pc |-> "agent", webhook |-> webhook]],
                webhook)
    ELSE finishDrain(s, d)

\* Lines 206-217: the loop test, the shift and the call of the agent.
loopHead(s, d) ==
    IF Len(s.webhookQueue) > 0
    THEN LET webhook == Head(s.webhookQueue)
         IN handToAgent(
                [s EXCEPT !.webhookQueue = Tail(@),
                          !.drains[d] = [pc |-> "agent", webhook |-> webhook]],
                webhook)
    ELSE finishDrain(s, d)

\* Lines 199-217: processQueue from its call to its first await.
processQueue_noFlag(s) ==
    IF s.processing \/ Len(s.webhookQueue) = 0
    THEN s
    ELSE loopHead([s EXCEPT !.drains = Append(@, [pc |-> "start"])],
                  Len(s.drains) + 1)

processQueue(s) ==
    IF s.processing \/ Len(s.webhookQueue) = 0
    THEN s
    ELSE loopHead([s EXCEPT !.processing = TRUE,
                            !.drains = Append(@, [pc |-> "start"])],
                  Len(s.drains) + 1)

\* Lines 170-172 with byUser set to the last count of any user plus one.
countReceived_set(s, userId, topic) ==
    [s EXCEPT
        !.stats.received = @ + 1,
        !.stats.byUser = MapSet(@, userId, s.stats.received + 1),
        !.stats.byTopic = MapSet(@, topic, MapGetOr0(@, topic) + 1)]

\* Lines 170-172: the counters of queueWebhook.
countReceived(s, userId, topic) ==
    [s EXCEPT
        !.stats.received = @ + 1,
        !.stats.byUser = MapSet(@, userId, MapGetOr0(@, userId) + 1),
        !.stats.byTopic = MapSet(@, topic, MapGetOr0(@, topic) + 1)]

\* queueWebhook without lines 193-196: no drain is started.
queueWebhook_noDrain(s, event, id) ==
    LET userId == JsOrStr(event.userId, "unknown")
        userName == JsOrStr(event.userName, "Unknown User")
        counted == countReceived(s, userId, event.topic)
    IN [counted EXCEPT
            !.webhookQueue = Append(@,
                [id |-> id, event |-> event, receivedAt |-> id,
                 userId |-> userId, userName |-> userName,
                 retries |-> Undefined, nextRetry |-> Undefined]),
            !.reqs[id].fate = "queued",
            !.reqs[id].event = event]

\* Lines 162-197.  event is the webHookEvent of the payload, id the entry's
\* identifier (the request number stands for the timestamp-and-random id and
\* for receivedAt).
queueWebhook(s, event, id) ==
    LET userId == JsOrStr(event.userId, "unknown")
        userName == JsOrStr(event.userName, "Unknown User")
        counted == countReceived(s, userId, event.topic)
        pushed ==
            [counted EXCEPT
                !.webhookQueue = Append(@,
                    [id |-> id, event |-> event, receivedAt |-> id,
                     userId |-> userId, userName |-> userName,
                     retries |-> Undefined, nextRetry |-> Undefined]),
                !.reqs[id].fate = "queued",
                !.reqs[id].event = event]
    IN IF ~pushed.processing THEN processQueue(pushed) ELSE pushed

\* Lines 238-243: the retry logic of the catch block.
retryLogic(s, webhook) ==
    IF JsLess(webhook.retries, RetryCeiling)
    THEN LET retries == JsOrNum(webhook.retries, 0) + 1
         IN [s EXCEPT
                !.webhookQueue = Append(@,
                    [webhook EXCEPT !.retries = retries,
                                    !.nextRetry = Pow2(retries)]),
                !.reqs[webhook.id].fate = "queued"]
    ELSE [s EXCEPT !.reqs[webhook.id].fate = "dropped"]

\* getStats with the number of events received as uniqueUsers.
getStats_received(s) ==
    [received |-> s.stats.received, processed |-> s.stats.processed,
     failed |-> s.stats.failed, byUser |-> s.stats.byUser,
     byTopic |-> s.stats.byTopic, uniqueUsers |-> s.stats.received]

\* getStats (lines 282-306), without successRate and mostActiveUser.
getStats(s) ==
    [received |-> s.stats.received, processed |-> s.stats.processed,
     failed |-> s.stats.failed, byUser |-> s.stats.byUser,
     byTopic |-> s.stats.byTopic,
     uniqueUsers |-> Cardinality(DOMAIN s.stats.byUser)]

\* GET /status with a getStats that starts the counters again.
statusRoute_reset(s, i) ==
    respond([s EXCEPT !.reqs[i].answer =
                          [stats |-> getStats(s),
                           queueLength |-> Len(s.webhookQueue),
                           processing |-> s.processing],
                      !.stats.processed = 0,
                      !.stats.failed = 0],
            i, 200)

\* GET /status (lines 69-78), without uptime and the two constants.
statusRoute(s, i) ==
    respond([s EXCEPT !.reqs[i].answer =
                          [stats |-> getStats(s),
                           queueLength |-> Len(s.webhookQueue),
                           processing |-> s.processing]],
            i, 200)

\* GET /metrics (lines 81-90): this.stats as JSON, in which a Map is an
\* empty object, and the queue; without the metrics of the agent.
metricsRoute(s, i) ==
    respond([s EXCEPT !.reqs[i].answer =
                          [webhooks |-> [received |-> s.stats.received,
                                         processed |-> s.stats.processed,
                                         failed |-> s.stats.failed,
                                         byUser |-> EmptyMap,
                                         byTopic |-> EmptyMap],
                           queue |-> [length |-> Len(s.webhookQueue),
                                      processing |-> s.processing]]],
            i, 200)

\* Lines 254-260: the checks that getHealthStatus takes before its await.
\* agentHealthy is what agent.isHealthy() returns.
healthChecks(s, agentHealthy) ==
    [server |-> "healthy",
     queue |-> IF Len(s.webhookQueue) < 100 THEN "healthy" ELSE "degraded",
     processing |-> IF s.processing THEN "busy" ELSE "idle",
     agent |-> IF agentHealthy THEN "healthy" ELSE "unhealthy",
     multiUser |-> "enabled"]

\* Lines 263-268: the check of the platform API joins the others.  api is
\* the status that agent.checkAPIHealth() resolves with, or "throws".
withApiCheck(checks, api) ==
    [k \in DOMAIN checks \cup {"jobberAPI"} |->
        IF k = "jobberAPI"
        THEN (IF api = "throws" THEN "unhealthy" ELSE api)
        ELSE checks[k]]

\* The overall status with 'busy' among the values that count as healthy.
overallStatus_busyOk(checks) ==
    IF \A k \in DOMAIN checks : checks[k] \in {"healthy", "idle", "enabled", "busy"}
    THEN "healthy"
    ELSE "degraded"

\* Lines 270-272: healthy when every check is 'healthy', 'idle' or 'enabled'.
overallStatus(checks) ==
    IF \A k \in DOMAIN checks : checks[k] \in {"healthy", "idle", "enabled"}
    THEN "healthy"
    ELSE "degraded"

\* Lines 66, 274-279: getHealthStatus returns and GET /health answers, 200
\* for 'healthy' and 503 otherwise; without timestamp and uptime.
healthRoute(s, i, checks) ==
    LET health == [status |-> overallStatus(checks), checks |-> checks]
    IN respond([s EXCEPT !.reqs[i].answer = health],
               i, IF health.status = "healthy" THEN 200 ELSE 503)

\* Lines 359-361: the loop test of shutdown.
shutdownLoop(s) ==
    IF Len(s.webhookQueue) > 0 /\ s.processing
    THEN [s EXCEPT !.lifecycle.shutdown = "waiting"]
    ELSE [s EXCEPT !.lifecycle.shutdown = "complete"]

\* What agent.checkAPIHealth() settles with: a status, or an exception.
ApiHealth == {"healthy", "degraded", "throws"}

(***************************************************************************)
(* Actions of the server.                                                  *)
(***************************************************************************)
\* POST /webhooks/jobber with a missing or wrong signature: the middleware
\* answers and the handler is not called.
JobberRejected ==
    /\ lifecycle.listening
    /\ Len(reqs) < MaxRequests
    /\ \E sig \in Signatures :
        /\ ~validateWebhook(sig)
        /\ LET i == Len(reqs) + 1
               s0 == [Server EXCEPT
                         !.reqs = Append(@, NewRequest("jobber", sig, "json", 0))]
           IN Commit(respond(s0, i, 401))
    /\ UNCHANGED engineVars

\* The handler with line 54 before line 51: the 200 is sent before the body
\* is parsed, and the 500 of the catch comes after the response.
JobberParseError_ackFirst ==
    /\ lifecycle.listening
    /\ Len(reqs) < MaxRequests
    /\ LET i == Len(reqs) + 1
           s0 == [Server EXCEPT
                     !.reqs = Append(@, NewRequest("jobber", "valid", "garbage", 0))]
       IN Commit(respond(s0, i, 200))
    /\ UNCHANGED engineVars

\* POST /webhooks/jobber, signature accepted, JSON.parse throws (lines 51,
\* 58-60).
JobberParseError ==
    /\ lifecycle.listening
    /\ Len(reqs) < MaxRequests
    /\ LET i == Len(reqs) + 1
           s0 == [Server EXCEPT
                     !.reqs = Append(@, NewRequest("jobber", "valid", "garbage", 0))]
       IN Commit(respond(s0, i, 500))
    /\ UNCHANGED engineVars

\* POST /webhooks/jobber, signature accepted, body parsed (lines 49-57).
JobberAcceptedWith(in) ==
    /\ lifecycle.listening
    /\ Len(reqs) < MaxRequests
    /\ LET i == Len(reqs) + 1
           event == [topic |-> in.topic, userId |-> in.user.userId,
                     userName |-> in.user.userName]
           s0 == [Server EXCEPT
                     !.reqs = Append(@, NewRequest("jobber", "valid", "json", in.plan))]
           s1 == respond(s0, i, 200)
       IN Commit(queueWebhook(s1, event, i))
    /\ UNCHANGED engineVars

JobberAccepted == \E in \in JobberInputs : JobberAcceptedWith(in)

\* POST /test/webhook (lines 95-115): no signature middleware; the event is
\* built from the body, queued, and then the response is sent.
TestWebhookWith(in) ==
    /\ lifecycle.listening
    /\ Len(reqs) < MaxRequests
    /\ LET i == Len(reqs) + 1
           testEvent == [topic |-> "JOB_CREATE",
                         userId |-> JsOrStr(in.user.userId, "test-user"),
                         userName |-> JsOrStr(in.user.userName, "Test User")]
           s0 == [Server EXCEPT
                     !.reqs = Append(@, NewRequest("test", "missing", "json", in.plan))]
           s1 == queueWebhook(s0, testEvent, i)
       IN Commit(respond(s1, i, 200))
    /\ UNCHANGED engineVars

TestWebhook == \E in \in TestInputs : TestWebhookWith(in)

\* The success branch without line 219: the entry is done and not counted.
AgentReturns_uncounted(d) ==
    /\ d \in 1..Len(drains)
    /\ drains[d].pc = "agent"
    /\ LET webhook == drains[d].webhook IN
        /\ reqs[webhook.id].attempts > reqs[webhook.id].plan
        /\ Commit([Server EXCEPT
                      !.reqs[webhook.id].fate = "processed",
                      !.reqs[webhook.id].finalRetries = JsOrNum(webhook.retries, 0),
                      !.drains[d].pc = "delay"])
    /\ UNCHANGED engineVars

\* The awaited agent.processWebhook call of drain d returns (lines 219-226).
AgentReturns(d) ==
    /\ d \in 1..Len(drains)
    /\ drains[d].pc = "agent"
    /\ LET webhook == drains[d].webhook IN
        /\ reqs[webhook.id].attempts > reqs[webhook.id].plan
        /\ Commit([Server EXCEPT
                      !.stats.processed = @ + 1,
                      !.reqs[webhook.id].fate = "processed",
                      !.reqs[webhook.id].finalRetries = JsOrNum(webhook.retries, 0),
                      !.drains[d].pc = "delay"])
    /\ UNCHANGED engineVars

\* The loop without its try/catch: what the agent throws leaves
\* processQueue, and line 250 is not reached.
AgentThrows_uncaught(d) ==
    /\ d \in 1..Len(drains)
    /\ drains[d].pc = "agent"
    /\ LET webhook == drains[d].webhook IN
        /\ reqs[webhook.id].attempts <= reqs[webhook.id].plan
        /\ Commit([Server EXCEPT !.reqs[webhook.id].fate = "dropped",
                                 !.drains = RemoveAt(@, d)])
    /\ UNCHANGED engineVars

\* The awaited agent.processWebhook call of drain d throws (lines 227-244):
\* the failure is counted, webhookFailed is emitted, and the retry logic
\* runs.
AgentThrows(d) ==
    /\ d \in 1..Len(drains)
    /\ drains[d].pc = "agent"
    /\ LET webhook == drains[d].webhook IN
        /\ reqs[webhook.id].attempts <= reqs[webhook.id].plan
        /\ Commit(retryLogic([Server EXCEPT !.stats.failed = @ + 1,
                                            !.reqs[webhook.id].webhookFailed = @ + 1,
                                            !.drains[d].pc = "delay"],
                             webhook))
    /\ UNCHANGED engineVars

\* The 100 ms delay of drain d elapses (line 247) and the loop goes round
\* (line 206), or ends (line 250).
DelayElapses(d) ==
    /\ d \in 1..Len(drains)
    /\ drains[d].pc = "delay"
    /\ Commit(loopHead(Server, d))
    /\ UNCHANGED engineVars

\* shutdown() is called (lines 352-356): server.close() makes the server
\* stop accepting connections at once.
Shutdown ==
    /\ lifecycle.shutdown = "idle"
    /\ Commit([Server EXCEPT !.lifecycle = [listening |-> FALSE,
                                            shutdown |-> "stopping"]])
    /\ UNCHANGED engineVars

\* The callback of server.close() runs and stop() resolves; the loop of
\* shutdown is reached (line 359).
ShutdownStopped ==
    /\ lifecycle.shutdown = "stopping"
    /\ Commit(shutdownLoop(Server))
    /\ UNCHANGED engineVars

\* The 100 ms delay of shutdown elapses (line 360) and the loop goes round.
ShutdownDelayElapses ==
    /\ lifecycle.shutdown = "waiting"
    /\ Commit(shutdownLoop(Server))
    /\ UNCHANGED engineVars

\* GET /status.
GetStatus ==
    /\ lifecycle.listening
    /\ Len(reqs) < MaxRequests
    /\ LET i == Len(reqs) + 1
           s0 == [Server EXCEPT
                     !.reqs = Append(@, NewRequest("status", "missing", "none", 0))]
       IN Commit(statusRoute(s0, i))
    /\ UNCHANGED engineVars

\* GET /metrics.
GetMetrics ==
    /\ lifecycle.listening
    /\ Len(reqs) < MaxRequests
    /\ LET i == Len(reqs) + 1
           s0 == [Server EXCEPT
                     !.reqs = Append(@, NewRequest("metrics", "missing", "none", 0))]
       IN Commit(metricsRoute(s0, i))
    /\ UNCHANGED engineVars

DrainStep == \E d \in 1..MaxRequests : AgentReturns(d) \/ AgentThrows(d) \/ DelayElapses(d)

\* JobberAPI as constructed (lines 540-544), with no call made.
ApiIdle ==
    /\ rateLimiter = [requests |-> 0, resetTime |-> WindowTicks]
    /\ callers = <<>>
    /\ clock = 0

ServerInit ==
    /\ webhookQueue = <<>>
    /\ processing = FALSE
    /\ stats = [received |-> 0, processed |-> 0, failed |-> 0,
                byUser |-> EmptyMap, byTopic |-> EmptyMap]
    /\ drains = <<>>
    /\ reqs = <<>>
    /\ lifecycle = [listening |-> TRUE, shutdown |-> "idle"]

EngineIdle ==
    /\ env = [learningEnabled |-> FALSE]
    /\ decisionHistory = <<>>
    /\ analysis = [phase |-> "idle"]
    /\ score = [called |-> FALSE]
    /\ dispatch = [called |-> FALSE]
    /\ ApiIdle

Init == ServerInit /\ EngineIdle

Next ==
    \/ JobberRejected
    \/ JobberParseError
    \/ JobberAccepted
    \/ TestWebhook
    \/ \E d \in 1..MaxRequests : AgentReturns(d)
    \/ \E d \in 1..MaxRequests : AgentThrows(d)
    \/ \E d \in 1..MaxRequests : DelayElapses(d)

Spec == Init /\ [][Next]_vars

ShutdownNext ==
    \/ Next
    \/ Shutdown
    \/ ShutdownStopped
    \/ ShutdownDelayElapses

\* The server with a shutdown() call at any moment.
ShutdownSpec == Init /\ [][ShutdownNext]_vars

ReadNext ==
    \/ Next
    \/ GetStatus
    \/ GetMetrics

\* The server with reads of its statistics at any moment.
ReadSpec == Init /\ [][ReadNext]_vars

\* GET /health is called (lines 64-65, 254-264): the checks are taken, and
\* getHealthStatus waits for agent.checkAPIHealth().
GetHealth ==
    /\ lifecycle.listening
    /\ Len(reqs) < MaxRequests
    /\ \E agentHealthy \in BOOLEAN :
        LET i == Len(reqs) + 1
            s0 == [Server EXCEPT
                      !.reqs = Append(@, NewRequest("health", "missing", "none", 0))]
        IN Commit([s0 EXCEPT !.reqs[i].answer = healthChecks(s0, agentHealthy)])
    /\ UNCHANGED engineVars

\* agent.checkAPIHealth() settles for the health request i (lines 264-279,
\* 66).
HealthSettles(i) ==
    /\ i \in 1..Len(reqs)
    /\ reqs[i].route = "health"
    /\ reqs[i].status = 0
    /\ \E api \in ApiHealth :
        Commit(healthRoute(Server, i, withApiCheck(reqs[i].answer, api)))
    /\ UNCHANGED engineVars

HealthNext ==
    \/ Next
    \/ GetHealth
    \/ \E i \in 1..MaxRequests : HealthSettles(i)

\* The server with health checks at any moment.
HealthSpec == Init /\ [][HealthNext]_vars

\* The liveness of the drain does not depend on who sent an event or on its
\* topic: LiveSpec takes one user and one topic, every route and every plan.
LiveJobberInputs == { x \in JobberInputs : x.user.userId = "u-angelo" /\ x.topic = "JOB_CREATE" }
LiveTestInputs == { x \in TestInputs : x.user.userId = Absent }

LiveNext ==
    \/ JobberRejected
    \/ JobberParseError
    \/ \E in \in LiveJobberInputs : JobberAcceptedWith(in)
    \/ \E in \in LiveTestInputs : TestWebhookWith(in)
    \/ \E d \in 1..MaxRequests : AgentReturns(d)
    \/ \E d \in 1..MaxRequests : AgentThrows(d)
    \/ \E d \in 1..MaxRequests : DelayElapses(d)

\* Every agent.processWebhook call returns or throws, and every timer fires.
LiveSpec == Init /\ [][LiveNext]_vars /\ WF_vars(DrainStep)

(***************************************************************************)
(* Part II.  DecisionEngine.                                               *)
(*                                                                         *)
(* Texts that are searched (titles, descriptions, keywords) are sequences  *)
(* of characters, so that toLowerCase and includes are computed; the other *)
(* strings are atoms.  Scores are IEEE doubles, computed with the          *)
(* rounding of every operation; capacities are in hundredths.              *)
(***************************************************************************)
(***************************************************************************)
(* IEEE 754 doubles, the numbers of JavaScript.  A natural number is a     *)
(* sequence of limbs in base 2^14, least significant first, without        *)
(* leading zero limbs; a double that is not zero is m * 2^e with           *)
(* 2^52 <= m < 2^53; every operation rounds the exact result to the        *)
(* nearest such number, ties to the even m.  Only the non-negative finite  *)
(* doubles occur.  The operations are functions, so that an argument is    *)
(* a value when the body reads it.                                         *)
(***************************************************************************)
LimbBits == 14

TwoTo[n \in Nat] == IF n = 0 THEN 1 ELSE 2 * TwoTo[n - 1]

LimbBase == TwoTo[LimbBits]

Limbs == Seq(Nat)

BNorm[x \in Limbs] ==
    IF x = <<>> THEN <<>>
    ELSE IF x[Len(x)] = 0 THEN BNorm[SubSeq(x, 1, Len(x) - 1)] ELSE x

BAddC[x \in Limbs, y \in Limbs, carry \in Nat] ==
    IF x = <<>> /\ y = <<>> THEN (IF carry = 0 THEN <<>> ELSE <<carry>>)
    ELSE LET a == IF x = <<>> THEN 0 ELSE Head(x)
             b == IF y = <<>> THEN 0 ELSE Head(y)
         IN <<(a + b + carry) % LimbBase>> \o
            BAddC[IF x = <<>> THEN <<>> ELSE Tail(x),
                  IF y = <<>> THEN <<>> ELSE Tail(y),
                  (a + b + carry) \div LimbBase]

BAdd[x \in Limbs, y \in Limbs] == BAddC[x, y, 0]

\* x - y for x >= y
BSubB[x \in Limbs, y \in Limbs, borrow \in Nat] ==
    IF x = <<>> THEN <<>>
    ELSE LET d == Head(x) - (IF y = <<>> THEN 0 ELSE Head(y)) - borrow
         IN <<d % LimbBase>> \o
            BSubB[Tail(x), IF y = <<>> THEN <<>> ELSE Tail(y),
                  IF d < 0 THEN 1 ELSE 0]

BSub[x \in Limbs, y \in Limbs] == BNorm[BSubB[x, y, 0]]

BMulSmallC[x \in Limbs, k \in Nat, carry \in Nat] ==
    IF x = <<>> THEN (IF carry = 0 THEN <<>> ELSE <<carry>>)
    ELSE <<(Head(x) * k + carry) % LimbBase>> \o
         BMulSmallC[Tail(x), k, (Head(x) * k + carry) \div LimbBase]

\* x * k for 0 <= k < 2^14
BMulSmall[x \in Limbs, k \in Nat] == BNorm[BMulSmallC[x, k, 0]]

BMul[x \in Limbs, y \in Limbs] ==
    IF y = <<>> \/ x = <<>> THEN <<>>
    ELSE BNorm[BAdd[BMulSmall[x, Head(y)], <<0>> \o BMul[x, Tail(y)]]]

\* Quotient and remainder of x by k, 0 < k < 2^14, from the top limb down:
\* the limbs of the quotient from the i-th on and the remainder so far.
BDivSmallR[x \in Limbs, k \in Nat, i \in Nat, r \in Nat, q \in Limbs] ==
    IF i = 0 THEN [q |-> q, r |-> r]
    ELSE BDivSmallR[x, k, i - 1, (r * LimbBase + x[i]) % k,
                    <<(r * LimbBase + x[i]) \div k>> \o q]

BDivSmall[x \in Limbs, k \in Nat] ==
    [q |-> BNorm[BDivSmallR[x, k, Len(x), 0, <<>>].q],
     r |-> BDivSmallR[x, k, Len(x), 0, <<>>].r]

BCmpAt[x \in Limbs, y \in Limbs, i \in Nat] ==
    IF i = 0 THEN 0
    ELSE IF x[i] < y[i] THEN -1
    ELSE IF x[i] > y[i] THEN 1
    ELSE BCmpAt[x, y, i - 1]

BCmp[x \in Limbs, y \in Limbs] ==
    IF Len(x) < Len(y) THEN -1
    ELSE IF Len(x) > Len(y) THEN 1
    ELSE BCmpAt[x, y, Len(x)]

BitLen[n \in Nat] == IF n = 0 THEN 0 ELSE 1 + BitLen[n \div 2]

BBitLen[x \in Limbs] ==
    IF x = <<>> THEN 0 ELSE LimbBits * (Len(x) - 1) + BitLen[x[Len(x)]]

BShl[x \in Limbs, b \in Nat] ==
    IF x = <<>> THEN <<>>
    ELSE [i \in 1..(b \div LimbBits) |-> 0] \o BMulSmall[x, TwoTo[b % LimbBits]]

BShr[x \in Limbs, b \in Nat] ==
    IF b \div LimbBits >= Len(x) THEN <<>>
    ELSE BDivSmall[SubSeq(x, (b \div LimbBits) + 1, Len(x)), TwoTo[b % LimbBits]].q

Double == [m : Limbs, e : Int]

DZero == [m |-> <<>>, e |-> 0]

\* q * 2^E for a q of 53 or 54 bits: 2^53 is 2^52 * 2.
DPack[q \in Limbs, E \in Int] ==
    IF BBitLen[q] > 53 THEN [m |-> BShr[q, 1], e |-> E + 1] ELSE [m |-> q, e |-> E]

\* M = q * 2^d + r rounded to q or q + 1: up when r is over half of 2^d, or
\* half of it and q is odd.
DRoundUp[q \in Limbs, r \in Limbs, d \in Nat] ==
    \/ BCmp[r, BShl[<<1>>, d - 1]] > 0
    \/ BCmp[r, BShl[<<1>>, d - 1]] = 0 /\ q[1] % 2 = 1

DRoundAt[M \in Limbs, E \in Int, d \in Nat, q \in Limbs] ==
    DPack[IF DRoundUp[q, BSub[M, BShl[q, d]], d] THEN BAdd[q, <<1>>] ELSE q, E + d]

\* The double nearest to M * 2^E, ties to even.
DRound[M \in Limbs, E \in Int] ==
    IF M = <<>> THEN DZero
    ELSE IF BBitLen[M] <= 53
         THEN [m |-> BShl[M, 53 - BBitLen[M]], e |-> E - (53 - BBitLen[M])]
         ELSE DRoundAt[M, E, BBitLen[M] - 53, BShr[M, BBitLen[M] - 53]]

\* The double of a natural number below 2^14.
DInt[n \in Nat] == DRound[BNorm[<<n>>], 0]

\* a + b
DAdd[a \in Double, b \in Double] ==
    IF a.m = <<>> THEN b
    ELSE IF b.m = <<>> THEN a
    ELSE IF a.e < b.e
         THEN DRound[BAdd[a.m, BShl[b.m, b.e - a.e]], a.e]
         ELSE DRound[BAdd[BShl[a.m, a.e - b.e], b.m], b.e]

\* a * b
DMul[a \in Double, b \in Double] ==
    IF a.m = <<>> \/ b.m = <<>> THEN DZero
    ELSE DRound[BMul[a.m, b.m], a.e + b.e]

\* The quotient d of a division to 56 bits and more, and one more bit that
\* says whether a remainder is left.
DQuotient[d \in [q : Limbs, r : Nat], E \in Int] ==
    DRound[BAdd[BShl[d.q, 1], IF d.r > 0 THEN <<1>> ELSE <<>>], E]

\* a / k for a natural number 0 < k < 2^14
DDivInt[a \in Double, k \in Nat] ==
    IF a.m = <<>> THEN DZero
    ELSE DQuotient[BDivSmall[BShl[a.m, 17], k], a.e - 18]

\* The literal n/k of the program text (0.1 is DLit[1, 10]).
DLit[n \in Nat, k \in Nat] == DDivInt[DInt[n], k]

\* a <= b
DLeq[a \in Double, b \in Double] ==
    \/ a.m = <<>>
    \/ /\ b.m # <<>>
       /\ \/ a.e < b.e
          \/ a.e = b.e /\ BCmp[a.m, b.m] <= 0

\* Math.min(a, b)
DMin[a \in Double, b \in Double] == IF DLeq[a, b] THEN a ELSE b

Range(seq) == { seq[i] : i \in 1..Len(seq) }

UpperCase == <<"A", "B", "C", "D", "E", "F", "G", "H", "I", "J", "K", "L", "M", "N", "O", "P", "Q", "R", "S", "T", "U", "V", "W", "X", "Y", "Z">>
LowerCase == <<"a", "b", "c", "d", "e", "f", "g", "h", "i", "j", "k", "l", "m", "n", "o", "p", "q", "r", "s", "t", "u", "v", "w", "x", "y", "z">>

\* String.prototype.toLowerCase
toLowerCase(text) ==
    [i \in 1..Len(text) |->
        IF \E k \in 1..Len(UpperCase) : UpperCase[k] = text[i]
        THEN LowerCase[CHOOSE k \in 1..Len(UpperCase) : UpperCase[k] = text[i]]
        ELSE text[i]]

\* String.prototype.includes
includes(text, part) ==
    \E i \in 0..(Len(text) - Len(part)) : SubSeq(text, i + 1, i + Len(part)) = part

NoText == <<>>           \* a text that is undefined, null or ''

\* loadRules (lines 15-81), in the order of Object.entries.
rules ==
    << [name |-> "emergencyResponse", priority |-> 100,
        conditions |-> [keywords |-> << <<"e", "m", "e", "r", "g", "e", "n", "c", "y">>,
                                     <<"u", "r", "g", "e", "n", "t">>,
                                     <<"l", "e", "a", "k">>,
                                     <<"f", "l", "o", "o", "d">>,
                                     <<"f", "i", "r", "e">>,
                                     <<"e", "l", "e", "c", "t", "r", "i", "c", "a", "l", " ", "h", "a", "z", "a", "r", "d">> >>,
                        timeWindow |-> 4],
        actions |-> <<"notifyOnCall", "assignNearestTech", "sendEmergencyAlert">>],
       [name |-> "vipClientHandler", priority |-> 90,
        conditions |-> [clientValue |-> 50000, responseTime |-> 2],
        actions |-> <<"assignBestTech", "notifyManager", "enablePriorityTracking">>],
       [name |-> "weekendPremium", priority |-> 80,
        conditions |-> [dayOfWeek |-> <<0, 6>>, multiplier |-> 150],
        actions |-> <<"applyWeekendRate", "confirmAvailability">>],
       [name |-> "newClientOnboarding", priority |-> 70,
        conditions |-> [isNewClient |-> TRUE, daysSinceCreation |-> 0],
        actions |-> <<"sendWelcomeMessage", "assignAccountManager", "scheduleFollowUp">>],
       [name |-> "capacityManagement", priority |-> 60,
        conditions |-> [dailyCapacityThreshold |-> 85, weeklyCapacityThreshold |-> 90],
        actions |-> <<"warnCapacity", "suggestRescheduling", "notifyScheduler">>],
       [name |-> "autoAssignment", priority |-> 50,
        conditions |-> [unassignedDuration |-> 30, hasAvailableTech |-> TRUE],
        actions |-> <<"autoAssignTech", "notifyAssignment">>],
       [name |-> "qualityControl", priority |-> 40,
        conditions |-> [jobType |-> << <<"b", "a", "t", "h", "r", "o", "o", "m">>, <<"k", "i", "t", "c", "h", "e", "n">> >>,
                        requiresInspection |-> TRUE],
        actions |-> <<"scheduleInspection", "createChecklist">>] >>

\* The entity that enrichment returned.  An absent text is NoText, an absent
\* string Absent, an absent number Undefined, an absent object has
\* present = FALSE; isNull marks a null entity.
NoClient == [present |-> FALSE, name |-> Absent, email |-> Absent,
             totalRevenue |-> Undefined, jobCount |-> Undefined]
NoUser == [present |-> FALSE, id |-> Absent, name |-> Absent, role |-> Absent]
NoAssignee == [present |-> FALSE, id |-> Absent, name |-> Absent]
NoProperty == [present |-> FALSE, city |-> Absent]

NullData ==
    [isNull |-> TRUE, title |-> NoText, description |-> NoText,
     status |-> Absent, total |-> Undefined, client |-> NoClient,
     createdByUser |-> NoUser, assignedTo |-> NoAssignee, property |-> NoProperty]

\* a <= b where a may be undefined (NaN): false.
JsLeq(a, b) == IF a = Undefined THEN FALSE ELSE a <= b

\* extractFeatures (lines 148-201).  now is the wall clock: [day, hour].
extractFeatures(data, context, now) ==
    LET jobTitle == toLowerCase(data.title)
        jobDescription == toLowerCase(data.description)
        emergencyKeywords == rules[1].conditions.keywords
    IN [timeOfDay |-> now.hour,
        dayOfWeek |-> now.day,
        isWeekend |-> now.day \in {0, 6},
        isAfterHours |-> now.hour < 8 \/ now.hour >= 17,
        jobTitle |-> jobTitle,
        jobDescription |-> jobDescription,
        jobStatus |-> JsOrStr(data.status, ""),
        jobValue |-> JsOrNum(data.total, 0),
        hasEmergencyKeywords |->
            \E k \in 1..Len(emergencyKeywords) :
                \/ includes(jobTitle, emergencyKeywords[k])
                \/ includes(jobDescription, emergencyKeywords[k]),
        clientName |-> JsOrStr(data.client.name, ""),
        clientEmail |-> JsOrStr(data.client.email, ""),
        isNewClient |->
            IF data.client.present THEN JsLeq(data.client.jobCount, 1) ELSE FALSE,
        clientLifetimeValue |->
            IF data.client.present THEN JsOrNum(data.client.totalRevenue, 0) ELSE 0,
        createdByUserId |-> JsOrStr(data.createdByUser.id, context.userId),
        createdByUserName |-> JsOrStr(data.createdByUser.name, "Unknown"),
        createdByUserRole |-> JsOrStr(data.createdByUser.role, "Unknown"),
        isAssigned |-> data.assignedTo.id # Absent,
        assignedToId |-> data.assignedTo.id,
        assignedToName |-> JsOrStr(data.assignedTo.name, ""),
        city |-> JsOrStr(data.property.city, ""),
        currentCapacity |-> JsOrNum(context.currentCapacity, 0),
        availableTechs |-> context.availableTechs]

Has(conditions, key) == key \in DOMAIN conditions

\* evaluateRule (lines 225-259) with || in the auto-assignment test.
evaluateRule_or(rule, features) ==
    LET conditions == rule.conditions IN
    \/ Has(conditions, "keywords") /\ features.hasEmergencyKeywords
    \/ /\ Has(conditions, "clientValue")
       /\ conditions.clientValue # 0
       /\ features.clientLifetimeValue >= conditions.clientValue
    \/ /\ Has(conditions, "dayOfWeek")
       /\ features.dayOfWeek \in Range(conditions.dayOfWeek)
    \/ Has(conditions, "isNewClient") /\ conditions.isNewClient /\ features.isNewClient
    \/ /\ Has(conditions, "dailyCapacityThreshold")
       /\ conditions.dailyCapacityThreshold # 0
       /\ features.currentCapacity >= conditions.dailyCapacityThreshold
    \/ /\ Has(conditions, "unassignedDuration")
       /\ conditions.unassignedDuration # 0
       /\ (~features.isAssigned \/ Len(features.availableTechs) > 0)

\* evaluateRule with a test for the quality-control rule, which lines
\* 225-259 do not have.
evaluateRule_inspection(rule, features) ==
    LET conditions == rule.conditions IN
    \/ Has(conditions, "keywords") /\ features.hasEmergencyKeywords
    \/ /\ Has(conditions, "clientValue")
       /\ conditions.clientValue # 0
       /\ features.clientLifetimeValue >= conditions.clientValue
    \/ /\ Has(conditions, "dayOfWeek")
       /\ features.dayOfWeek \in Range(conditions.dayOfWeek)
    \/ Has(conditions, "isNewClient") /\ conditions.isNewClient /\ features.isNewClient
    \/ /\ Has(conditions, "dailyCapacityThreshold")
       /\ conditions.dailyCapacityThreshold # 0
       /\ features.currentCapacity >= conditions.dailyCapacityThreshold
    \/ /\ Has(conditions, "unassignedDuration")
       /\ conditions.unassignedDuration # 0
       /\ ~features.isAssigned
       /\ Len(features.availableTechs) > 0
    \/ Has(conditions, "requiresInspection") /\ conditions.requiresInspection

\* evaluateRule (lines 225-259): the first test that holds returns true.
evaluateRule(rule, features) ==
    LET conditions == rule.conditions IN
    \/ Has(conditions, "keywords") /\ features.hasEmergencyKeywords
    \/ /\ Has(conditions, "clientValue")
       /\ conditions.clientValue # 0
       /\ features.clientLifetimeValue >= conditions.clientValue
    \/ /\ Has(conditions, "dayOfWeek")
       /\ features.dayOfWeek \in Range(conditions.dayOfWeek)
    \/ Has(conditions, "isNewClient") /\ conditions.isNewClient /\ features.isNewClient
    \/ /\ Has(conditions, "dailyCapacityThreshold")
       /\ conditions.dailyCapacityThreshold # 0
       /\ features.currentCapacity >= conditions.dailyCapacityThreshold
    \/ /\ Has(conditions, "unassignedDuration")
       /\ conditions.unassignedDuration # 0
       /\ ~features.isAssigned
       /\ Len(features.availableTechs) > 0

\* Array.prototype.sort with a comparator is stable (ECMAScript 2019).  The
\* elements are paired with a number, compare(a, b) being the difference of
\* the numbers of a and b, and each pair is inserted after the pairs that do
\* not sort after it.
RECURSIVE InsertSorted(_, _)
InsertSorted(sorted, x) ==
    IF sorted = <<>> THEN <<x>>
    ELSE IF Head(sorted).key - x.key <= 0
         THEN <<Head(sorted)>> \o InsertSorted(Tail(sorted), x)
         ELSE <<x>> \o sorted

RECURSIVE StableSort(_)
StableSort(pairs) ==
    IF pairs = <<>> THEN <<>>
    ELSE InsertSorted(StableSort(SubSeq(pairs, 1, Len(pairs) - 1)),
                      pairs[Len(pairs)])

\* (a, b) => a.priority - b.priority
sortByPriority_ascending(decisions) ==
    LET sorted == StableSort([i \in 1..Len(decisions) |->
                        [key |-> decisions[i].priority, item |-> decisions[i]]])
    IN [i \in 1..Len(sorted) |-> sorted[i].item]

\* Line 220: decisions.sort((a, b) => b.priority - a.priority)
sortByPriority(decisions) ==
    LET sorted == StableSort([i \in 1..Len(decisions) |->
                        [key |-> 0 - decisions[i].priority, item |-> decisions[i]]])
    IN [i \in 1..Len(sorted) |-> sorted[i].item]

\* generateReasoning (lines 261-273): the text is chosen by the rule's name;
\* the name stands for the text.
generateReasoning(ruleName, features) == ruleName

\* The loop of applyRules with a break after the first push: the first
\* rule of the table that applies, alone.
RECURSIVE matchRules_first(_, _)
matchRules_first(k, features) ==
    IF k > Len(rules) THEN <<>>
    ELSE IF evaluateRule(rules[k], features)
         THEN << [rule |-> rules[k].name, priority |-> rules[k].priority,
                  actions |-> rules[k].actions,
                  reasoning |-> generateReasoning(rules[k].name, features)] >>
         ELSE matchRules_first(k + 1, features)

\* applyRules (lines 203-223).
RECURSIVE matchRules(_, _)
matchRules(k, features) ==
    IF k > Len(rules) THEN <<>>
    ELSE (IF evaluateRule(rules[k], features)
          THEN << [rule |-> rules[k].name, priority |-> rules[k].priority,
                   actions |-> rules[k].actions,
                   reasoning |-> generateReasoning(rules[k].name, features)] >>
          ELSE <<>>) \o matchRules(k + 1, features)

applyRules(features) == sortByPriority(matchRules(1, features))

confidenceThreshold == DLit[3, 4]      \* line 10: 0.75
maxHistorySize == 1000                 \* line 12

\* The number literals of calculateConfidence and checkHistoricalSuccess.
BaseConfidence == DLit[1, 2]           \* 0.5
Increment == DLit[1, 10]               \* 0.1
BonusCap == DLit[1, 5]                 \* 0.2
BonusPerDecision == DLit[1, 20]        \* 0.05
RunningWeight == DLit[7, 10]           \* 0.7
HistoryWeight == DLit[3, 10]           \* 0.3
DefaultSuccessRate == DLit[3, 4]       \* 0.75
One == DInt[1]

\* checkHistoricalSuccess with 0 as the answer when nothing is comparable.
checkHistoricalSuccess_zero(decisions, features, history) ==
    LET Similar(h) ==
            /\ h.features.present
            /\ h.features.jobStatus = features.jobStatus
            /\ h.features.isWeekend = features.isWeekend
            /\ \E d \in Range(h.decisions), curr \in Range(decisions) : curr.rule = d.rule
        similarDecisions == SelectSeq(history, Similar)
        Succeeded(h) == h.outcome = "success"
        successCount == Len(SelectSeq(similarDecisions, Succeeded))
    IN IF Len(similarDecisions) = 0 THEN DZero
       ELSE DDivInt[DInt[successCount], Len(similarDecisions)]

\* checkHistoricalSuccess (lines 295-307).  A record whose features object is
\* {} has jobStatus and isWeekend undefined, which are === to nothing the
\* current features hold.
checkHistoricalSuccess(decisions, features, history) ==
    LET Similar(h) ==
            /\ h.features.present
            /\ h.features.jobStatus = features.jobStatus
            /\ h.features.isWeekend = features.isWeekend
            /\ \E d \in Range(h.decisions), curr \in Range(decisions) : curr.rule = d.rule
        similarDecisions == SelectSeq(history, Similar)
        Succeeded(h) == h.outcome = "success"
        successCount == Len(SelectSeq(similarDecisions, Succeeded))
    IN IF Len(similarDecisions) = 0 THEN DefaultSuccessRate
       ELSE DDivInt[DInt[successCount], Len(similarDecisions)]

\* Math.min(100, confidence * 100): the score as a percentage.
clampConfidence_percent(confidence) == DMin[DInt[100], DMul[confidence, DInt[100]]]

\* Line 292: Math.min(1, confidence)
clampConfidence(confidence) == DMin[One, confidence]

\* Lines 279-281: if (field) confidence += 0.1
addIfPresent(confidence, present) ==
    IF present THEN DAdd[confidence, Increment] ELSE confidence

\* Lines 284-286: if (decisions.length > 0)
\*                    confidence += Math.min(0.2, decisions.length * 0.05)
addDecisionBonus(confidence, n) ==
    IF n > 0
    THEN DAdd[confidence, DMin[BonusCap, DMul[DInt[n], BonusPerDecision]]]
    ELSE confidence

\* Lines 276-286: the score before the history is blended in.  A string is
\* truthy when it is not empty.
runningScore(decisions, features) ==
    addDecisionBonus(
        addIfPresent(
            addIfPresent(
                addIfPresent(BaseConfidence, features.jobTitle # NoText),
                features.clientName # ""),
            features.createdByUserId # Absent),
        Len(decisions))

\* Lines 289-292: the blend of the running score and the historical ratio,
\* and the call with what it computed.
blendWithHistory(decisions, features, history, running, historicalSuccess) ==
    [called |-> TRUE,
     decisions |-> decisions,
     features |-> features,
     historyLen |-> Len(history),
     running |-> running,
     historical |-> historicalSuccess,
     confidence |-> clampConfidence(DAdd[DMul[running, RunningWeight],
                                         DMul[historicalSuccess, HistoryWeight]])]

\* calculateConfidence (lines 275-293).
calculateConfidence(decisions, features, history) ==
    blendWithHistory(decisions, features, history,
                     runningScore(decisions, features),
                     checkHistoricalSuccess(decisions, features, history))

\* recordDecision without lines 321-324: the history grows without bound.
recordDecision_unbounded(history, event, decisions, confidence) ==
    Append(history, [event |-> event, decisions |-> decisions,
                     confidence |-> confidence, features |-> event.features,
                     outcome |-> "pending"])

\* recordDecision (lines 309-328).  The record takes its features from the
\* event (event.features || {}), not from the analysis; the timestamp is
\* left out.
recordDecision(history, event, decisions, confidence) ==
    LET record == [event |-> event, decisions |-> decisions,
                   confidence |-> confidence, features |-> event.features,
                   outcome |-> "pending"]
        pushed == Append(history, record)
    IN IF Len(pushed) > maxHistorySize THEN Tail(pushed) ELSE pushed

HandledTopics ==
    {"JOB_CREATE", "JOB_UPDATE", "CLIENT_CREATE", "CLIENT_UPDATE",
     "QUOTE_CREATE", "QUOTE_UPDATE", "INVOICE_CREATE", "INVOICE_UPDATE"}

JobTopics == {"JOB_CREATE", "JOB_UPDATE"}      \* topic.startsWith('JOB_')

\* processWebhookEvent with a default case that fetches the item as a job.
processWebhookEvent_fetchAlways(event, api) ==
    IF api.fetch = "throws"
    THEN [threw |-> TRUE, data |-> NullData, fetches |-> <<"entity">>]
    ELSE [threw |-> FALSE, data |-> api.entity, fetches |-> <<"entity">>]

\* JobberAPI.processWebhookEvent (lines 855-882): api is what the platform
\* answers, [fetch, entity, roster, users]; fetches are the calls of the
\* platform that were made.
processWebhookEvent(event, api) ==
    IF event.topic \in HandledTopics
    THEN (IF api.fetch = "throws"
          THEN [threw |-> TRUE, data |-> NullData, fetches |-> <<"entity">>]
          ELSE [threw |-> FALSE, data |-> api.entity, fetches |-> <<"entity">>])
    ELSE [threw |-> FALSE, data |-> NullData, fetches |-> <<>>]

\* users.find(u => u.id === event.userId)
findUser(users, userId) ==
    IF \E k \in 1..Len(users) : users[k].id = userId
    THEN LET k == CHOOSE k \in 1..Len(users) :
                    /\ users[k].id = userId
                    /\ \A j \in 1..(k - 1) : users[j].id # userId
         IN [present |-> TRUE, id |-> users[k].id, name |-> users[k].name,
             role |-> users[k].role]
    ELSE NoUser

\* enrichEventData (lines 128-146).
enrichEventData(event, api) ==
    LET fetched == processWebhookEvent(event, api) IN
    IF fetched.threw THEN fetched
    ELSE IF ~fetched.data.isNull /\ event.topic \in JobTopics
         THEN (IF api.roster = "throws"
               THEN [threw |-> TRUE, data |-> NullData,
                     fetches |-> Append(fetched.fetches, "users")]
               ELSE [threw |-> FALSE,
                     data |-> [fetched.data EXCEPT
                                 !.createdByUser = findUser(api.users, event.userId)],
                     fetches |-> Append(fetched.fetches, "users")])
         ELSE fetched

\* Lines 101-103 with the record made after the gate, for the analyses that
\* pass it.
recordIfLearning_afterGate(history, learningEnabled, event, decisions, confidence) ==
    IF learningEnabled /\ DLeq[confidenceThreshold, confidence]
    THEN recordDecision(history, event, decisions, confidence)
    ELSE history

\* Lines 101-103: if (process.env.LEARNING_ENABLED === 'true')
\*                    this.recordDecision(event, decisions, confidence)
recordIfLearning(history, learningEnabled, event, decisions, confidence) ==
    IF learningEnabled
    THEN recordDecision(history, event, decisions, confidence)
    ELSE history

\* Lines 100-115: the record and the result.
analyzeScored(in, history, learningEnabled, features, decisions, call) ==
    [result |-> [phase |-> "done", input |-> in, threw |-> FALSE,
                 promise |-> "fulfilled", fetches |-> <<>>,
                 historyLen |-> Len(history),
                 features |-> features,
                 decisions |-> decisions,
                 confidence |-> call.confidence,
                 shouldExecute |-> DLeq[confidenceThreshold, call.confidence]],
     scored |-> TRUE,
     call |-> call,
     history |-> recordIfLearning(history, learningEnabled, in.event, decisions,
                                  call.confidence)]

\* Lines 97-98: the score of the decisions.
analyzeDecisions(in, history, learningEnabled, features, decisions) ==
    analyzeScored(in, history, learningEnabled, features, decisions,
                  calculateConfidence(decisions, features, history))

\* Lines 91-95: the features of the enriched event and the rules they match.
analyzeFeatures(in, history, learningEnabled, features) ==
    analyzeDecisions(in, history, learningEnabled, features, applyRules(features))

\* The result with the calls of the platform that the enrichment made.
withFetches(r, fetches) == [r EXCEPT !.result.fetches = fetches]

\* analyze with a catch that throws the error again: the promise of the
\* call is rejected.
analyzeEnriched_rethrow(in, history, learningEnabled, enriched) ==
    IF enriched.threw
    THEN [result |-> [phase |-> "done", input |-> in, threw |-> TRUE,
                      promise |-> "rejected", fetches |-> enriched.fetches,
                      historyLen |-> Len(history),
                      decisions |-> <<>>, confidence |-> DZero,
                      shouldExecute |-> FALSE],
          scored |-> FALSE,
          history |-> history]
    ELSE withFetches(analyzeFeatures(in, history, learningEnabled,
                                     extractFeatures(enriched.data, in.context, in.now)),
                     enriched.fetches)

\* Lines 88-89 and 116-125: the enrichment, and the catch of what it throws,
\* which returns a result (the promise of the call is fulfilled).
analyzeEnriched(in, history, learningEnabled, enriched) ==
    IF enriched.threw
    THEN [result |-> [phase |-> "done", input |-> in, threw |-> TRUE,
                      promise |-> "fulfilled", fetches |-> enriched.fetches,
                      historyLen |-> Len(history),
                      decisions |-> <<>>, confidence |-> DZero,
                      shouldExecute |-> FALSE],
          scored |-> FALSE,
          history |-> history]
    ELSE withFetches(analyzeFeatures(in, history, learningEnabled,
                                     extractFeatures(enriched.data, in.context, in.now)),
                     enriched.fetches)

\* analyze (lines 83-126): the result, the call of calculateConfidence it
\* made and the history it leaves.  The result also keeps the input and the
\* length of the history at the call.
analyze(in, history, learningEnabled) ==
    analyzeEnriched(in, history, learningEnabled, enrichEventData(in.event, in.api))

\* updateOutcome (lines 504-510).  No record has an id, so d.id is undefined
\* and === only to an undefined decisionId (Absent).
updateOutcome(history, decisionId, outcome) ==
    IF Len(history) > 0 /\ decisionId = Absent
    THEN [history EXCEPT ![1].outcome = outcome]
    ELSE history

\* The keys of an actionMap without lines 376-378.
ActionNames_short ==
    {"notifyOnCall", "assignNearestTech", "sendEmergencyAlert", "assignBestTech",
     "notifyManager", "enablePriorityTracking", "applyWeekendRate",
     "confirmAvailability", "sendWelcomeMessage", "assignAccountManager",
     "scheduleFollowUp", "warnCapacity", "suggestRescheduling", "notifyScheduler",
     "autoAssignTech"}

\* The keys of actionMap (lines 360-379).
ActionNames ==
    {"notifyOnCall", "assignNearestTech", "sendEmergencyAlert", "assignBestTech",
     "notifyManager", "enablePriorityTracking", "applyWeekendRate",
     "confirmAvailability", "sendWelcomeMessage", "assignAccountManager",
     "scheduleFollowUp", "warnCapacity", "suggestRescheduling", "notifyScheduler",
     "autoAssignTech", "notifyAssignment", "scheduleInspection", "createChecklist"}

\* autoAssignTech (lines 474-483).  context.availableTechs may be missing,
\* and then reading its first element throws; jobberAPI.assignJob
\* (lines 705-729) throws when the platform refuses.
autoAssignTech(context, platform) ==
    IF ~context.hasTechs
    THEN [threw |-> TRUE, value |-> "TypeError"]
    ELSE IF Len(context.availableTechs) > 0 /\ context.jobId # Absent
         THEN (IF platform.assign = "throws"
               THEN [threw |-> TRUE, value |-> "Failed to assign job"]
               ELSE [threw |-> FALSE, value |-> "assigned"])
         ELSE [threw |-> FALSE, value |-> "not assigned"]

\* actionMap is an object literal, so actionMap[action] also finds what
\* Object.prototype holds: constructor and toString are functions that
\* return when called without arguments, and __proto__ is an object, whose
\* call throws a TypeError.
InheritedFunctions == {"constructor", "toString"}

InheritedObjects == {"__proto__"}

\* executeAction (lines 358-387).  The implementations other than
\* autoAssignTech (lines 390-501) return a literal; the name of the action
\* stands for it.
executeAction(action, context, decision, platform) ==
    IF action \in InheritedFunctions
    THEN [threw |-> FALSE, value |-> "inherited"]
    ELSE IF action \in InheritedObjects
    THEN [threw |-> TRUE, value |-> "TypeError"]
    ELSE IF action \notin ActionNames
    THEN [threw |-> TRUE, value |-> "Unknown action"]
    ELSE IF action = "autoAssignTech"
         THEN autoAssignTech(context, platform)
         ELSE [threw |-> FALSE, value |-> action]

\* Lines 337-351 with the catch around the loop over the actions: the first
\* failure is recorded and ends the decision.
RECURSIVE executeActions_abort(_, _, _, _, _)
executeActions_abort(actions, k, context, decision, platform) ==
    IF k > Len(actions) THEN <<>>
    ELSE LET outcome == executeAction(actions[k], context, decision, platform) IN
         IF outcome.threw
         THEN << [action |-> actions[k], success |-> FALSE,
                  result |-> Absent, error |-> outcome.value] >>
         ELSE << [action |-> actions[k], success |-> TRUE,
                  result |-> outcome.value, error |-> Absent] >>
              \o executeActions_abort(actions, k + 1, context, decision, platform)

\* Lines 336-352: the actions of one decision from the k-th on, one record
\* for each.
RECURSIVE executeActions(_, _, _, _, _)
executeActions(actions, k, context, decision, platform) ==
    IF k > Len(actions) THEN <<>>
    ELSE LET outcome == executeAction(actions[k], context, decision, platform) IN
         (IF outcome.threw
          THEN << [action |-> actions[k], success |-> FALSE,
                   result |-> Absent, error |-> outcome.value] >>
          ELSE << [action |-> actions[k], success |-> TRUE,
                   result |-> outcome.value, error |-> Absent] >>)
         \o executeActions(actions, k + 1, context, decision, platform)

\* executeDecisions (lines 330-356).
RECURSIVE executeDecisions(_, _, _)
executeDecisions(decisions, context, platform) ==
    IF decisions = <<>> THEN <<>>
    ELSE executeActions(Head(decisions).actions, 1, context, Head(decisions), platform)
         \o executeDecisions(Tail(decisions), context, platform)

(***************************************************************************)
(* Inputs of the engine.                                                   *)
(***************************************************************************)
TitleEmergency == <<"E", "m", "e", "r", "g", "e", "n", "c", "y", " ", "l", "e", "a", "k", " ", "i", "n", " ", "b", "a", "s", "e", "m", "e", "n", "t">>
TitleKitchen == <<"K", "i", "t", "c", "h", "e", "n", " ", "r", "e", "m", "o", "d", "e", "l">>
DescriptionUrgent == <<"U", "R", "G", "E", "N", "T", ":", " ", "F", "i", "r", "e", "p", "l", "a", "c", "e">>

ClientVipOld == [present |-> TRUE, name |-> "Acme", email |-> "office@acme.test",
                 totalRevenue |-> 50000, jobCount |-> 5]
ClientVipNew == [present |-> TRUE, name |-> "Nova", email |-> Absent,
                 totalRevenue |-> 50000, jobCount |-> 1]
ClientSmallNew == [present |-> TRUE, name |-> "Smith", email |-> Absent,
                   totalRevenue |-> 49999, jobCount |-> 1]
ClientBare == [present |-> TRUE, name |-> Absent, email |-> Absent,
               totalRevenue |-> Undefined, jobCount |-> Undefined]

UserAustin == [id |-> "u-austin", name |-> "Austin", role |-> "technician"]
Tech == [id |-> "tech-1"]
Assignee == [present |-> TRUE, id |-> "tech-9", name |-> "Sam"]
Property == [present |-> TRUE, city |-> "Seattle"]

NoEventFeatures == [present |-> FALSE, jobStatus |-> Absent, isWeekend |-> FALSE]
EventFeaturesActiveWeekend == [present |-> TRUE, jobStatus |-> "active", isWeekend |-> TRUE]

Sunday9 == [day |-> 0, hour |-> 9]
Wednesday18 == [day |-> 3, hour |-> 18]
Saturday7 == [day |-> 6, hour |-> 7]

JobEntity(title, description, detail, client, assignedTo) ==
    [isNull |-> FALSE, title |-> title, description |-> description,
     status |-> IF detail THEN "active" ELSE Absent,
     total |-> IF detail THEN 1200 ELSE Undefined,
     client |-> client, createdByUser |-> NoUser, assignedTo |-> assignedTo,
     property |-> IF detail THEN Property ELSE NoProperty]

\* Every combination of the job's fields, the roster, the context and the
\* clock for a JOB_CREATE event; an event of an unknown topic; a fetch that
\* throws.  The platform's answer is read as it comes: a client may carry
\* the totalRevenue and jobCount that lines 196-197 read, though the query
\* of getJob (lines 628-678) does not ask for them.
RuleInputs ==
    { [event |-> [topic |-> "JOB_CREATE", itemId |-> "j1", userId |-> userId,
                  features |-> NoEventFeatures],
       api |-> [fetch |-> "ok",
                entity |-> JobEntity(title, description, detail, client, assignedTo),
                roster |-> roster[1], users |-> roster[2]],
       context |-> [userId |-> ctxUser, currentCapacity |-> capacity,
                    availableTechs |-> techs],
       now |-> now] :
        userId \in {"u-austin", Absent},
        title \in {NoText, TitleEmergency, TitleKitchen},
        description \in {NoText, DescriptionUrgent},
        detail \in BOOLEAN,
        client \in {NoClient, ClientVipOld, ClientVipNew, ClientSmallNew, ClientBare},
        assignedTo \in {NoAssignee, Assignee},
        roster \in {<<"throws", <<>>>>, <<"ok", <<UserAustin>>>>},
        ctxUser \in {Absent, "u-angelo"},
        capacity \in {Undefined, 84, 85, 90},
        techs \in {<<>>, <<Tech>>},
        now \in {Sunday9, Wednesday18, Saturday7} }
    \cup
    { [event |-> [topic |-> topic, itemId |-> "x1", userId |-> "u-austin",
                  features |-> NoEventFeatures],
       api |-> [fetch |-> fetch,
                entity |-> JobEntity(TitleEmergency, NoText, TRUE, ClientVipOld, NoAssignee),
                roster |-> "ok", users |-> <<UserAustin>>],
       context |-> [userId |-> "u-angelo", currentCapacity |-> 90,
                    availableTechs |-> <<Tech>>],
       now |-> Wednesday18] :
        topic \in {"JOB_UPDATE", "PAYMENT_RECORDED"}, fetch \in {"ok", "throws"} }

EngineInput(topic, eventFeatures, fetch, entity, capacity, techs, now) ==
    [event |-> [topic |-> topic, itemId |-> "j1", userId |-> "u-austin",
                features |-> eventFeatures],
     api |-> [fetch |-> fetch, entity |-> entity,
              roster |-> "ok", users |-> <<UserAustin>>],
     context |-> [userId |-> Absent, currentCapacity |-> capacity,
                  availableTechs |-> techs],
     now |-> now]

\* The analyses that fill the histories of ConfidenceSpec: one decision on a
\* weekday, with and without features in the event payload, and six
\* decisions at the weekend with them.
HistoryInputs ==
    { EngineInput("JOB_CREATE", ef, "ok",
                  JobEntity(TitleKitchen, NoText, TRUE, ClientVipOld, Assignee),
                  Undefined, <<>>, Wednesday18) :
        ef \in {NoEventFeatures, EventFeaturesActiveWeekend} }
    \cup
    { EngineInput("JOB_CREATE", EventFeaturesActiveWeekend, "ok",
                  JobEntity(TitleEmergency, NoText, TRUE, ClientVipNew, NoAssignee),
                  90, <<Tech>>, Saturday7) }

\* The k-th of the events that fill the history of HistoryCapSpec: a topic
\* that is not handled, the number of the event as its time.
OldInput(k) ==
    [event |-> [topic |-> "PAYMENT_RECORDED", itemId |-> "p1", userId |-> "u-austin",
                features |-> NoEventFeatures, occurredAt |-> k],
     api |-> [fetch |-> "ok", entity |-> NullData, roster |-> "ok",
              users |-> <<UserAustin>>],
     context |-> [userId |-> Absent, currentCapacity |-> Undefined,
                  availableTechs |-> <<>>],
     now |-> Wednesday18]

\* The history after the analyses of the first n of these events with
\* learning enabled: their records carry no features, so that none of them
\* is comparable and each analysis leaves the record that it leaves on an
\* empty history.
FilledHistory(n) == [k \in 1..n |-> analyze(OldInput(k), <<>>, TRUE).history[1]]

\* Two records under the cap, one under it, and at the cap.
FilledHistories ==
    { FilledHistory(n) : n \in (maxHistorySize - 2)..maxHistorySize }

\* A decision list naming every rule of the table, as a caller of
\* calculateConfidence may pass it.
allDecisions ==
    [k \in 1..Len(rules) |->
        [rule |-> rules[k].name, priority |-> rules[k].priority,
         actions |-> rules[k].actions, reasoning |-> rules[k].name]]

\* The events of EngineSpec: an emergency job whose creator is in the
\* roster, with a client and without one, with features in the payload and
\* without them; the same job from a user the roster does not hold; a job
\* that matches six rules; an event of an unknown topic; a fetch that throws.
EngineEvents ==
    { EngineInput("JOB_CREATE", ef, "ok",
                  JobEntity(TitleEmergency, NoText, TRUE, client, Assignee),
                  Undefined, <<>>, Wednesday18) :
        ef \in {NoEventFeatures, EventFeaturesActiveWeekend},
        client \in {NoClient, ClientVipOld} }
    \cup
    { [EngineInput("JOB_CREATE", NoEventFeatures, "ok",
                   JobEntity(TitleEmergency, NoText, TRUE, NoClient, Assignee),
                   Undefined, <<>>, Wednesday18)
         EXCEPT !.event.userId = "u-guest"] }
    \cup
    { EngineInput("JOB_CREATE", NoEventFeatures, "ok",
                  JobEntity(TitleEmergency, NoText, TRUE, ClientVipNew, NoAssignee),
                  90, <<Tech>>, Saturday7) }
    \cup
    { EngineInput(x[1], NoEventFeatures, x[2], NullData, Undefined, <<>>, Wednesday18) :
        x \in {<<"PAYMENT_RECORDED", "ok">>, <<"JOB_CREATE", "throws">>} }

\* Decisions as a caller of executeDecisions may write them: the second of
\* the three actions of the first is not in actionMap, the actions of the
\* second are names that Object.prototype holds.
CustomDecision ==
    [rule |-> "custom", priority |-> 1,
     actions |-> <<"notifyOnCall", "launchRocket", "notifyManager">>,
     reasoning |-> "custom"]

InheritedDecision ==
    [rule |-> "inherited", priority |-> 1,
     actions |-> <<"toString", "__proto__", "constructor">>,
     reasoning |-> "inherited"]

\* The arguments of executeDecisions called on its own, and what the
\* platform answers to jobAssign: no decision, every rule of the table, and
\* the custom decision before autoAssignment; a context with and without a
\* job id, with a technician, with none and without availableTechs; names
\* that Object.prototype holds.
DispatchCalls ==
    { [decisions |-> decisions,
       context |-> [jobId |-> jobId, hasTechs |-> techs[1], availableTechs |-> techs[2]],
       platform |-> [assign |-> assign]] :
        decisions \in {<<>>, allDecisions, <<CustomDecision, allDecisions[6]>>,
                       <<InheritedDecision>>},
        jobId \in {Absent, "j1"},
        techs \in {<<FALSE, <<>>>>, <<TRUE, <<>>>>, <<TRUE, <<Tech>>>>},
        assign \in {"ok", "throws"} }

(***************************************************************************)
(* executeDecisions step by step: a run is the call between two awaits,    *)
(* [decisions, context, platform, d, a, started, results], d and a the     *)
(* positions of the two loops, started the actions whose executeAction     *)
(* call was made.                                                          *)
(***************************************************************************)
\* The inner loop from the last action of the decision to the first.
actionAt_reversed(decision, a) == decision.actions[Len(decision.actions) + 1 - a]

\* Line 336: the a-th action of the loop over decision.actions.
actionAt(decision, a) == decision.actions[a]

\* Lines 333 and 336: the loop heads.  The next action is started (line
\* 338, up to its await), or the results are returned (line 355).
RECURSIVE nextAction(_)
nextAction(run) ==
    IF run.d > Len(run.decisions)
    THEN [run EXCEPT !.called = TRUE, !.pc = "done"]
    ELSE IF run.a > Len(run.decisions[run.d].actions)
         THEN nextAction([run EXCEPT !.d = @ + 1, !.a = 1])
         ELSE [run EXCEPT !.pc = "await",
                          !.started = Append(@, actionAt(run.decisions[run.d], run.a))]

\* Lines 338-350: the awaited executeAction call settles and its record is
\* pushed.
pushResult(run, action, outcome) ==
    [run EXCEPT !.a = @ + 1,
                !.results = Append(@,
                    IF outcome.threw
                    THEN [action |-> action, success |-> FALSE,
                          result |-> Absent, error |-> outcome.value]
                    ELSE [action |-> action, success |-> TRUE,
                          result |-> outcome.value, error |-> Absent])]

settleAction(run, action) ==
    nextAction(pushResult(run, action,
                          executeAction(action, run.context,
                                        run.decisions[run.d], run.platform)))

(***************************************************************************)
(* Actions of the engine.                                                  *)
(***************************************************************************)
\* analyze(event, context) on an input that Init drew.
AnalyzePending ==
    /\ analysis.phase = "pending"
    /\ \E r \in {analyze(analysis.input, decisionHistory, env.learningEnabled)} :
        /\ analysis' = r.result
        /\ score' = IF r.scored THEN r.call ELSE score
        /\ decisionHistory' = r.history
    /\ UNCHANGED <<env, dispatch, serverVars, apiVars>>

\* The arguments of calculateConfidence called on its own: the first k
\* rules of the table as the decisions, and the features of a job with or
\* without a title, a client and a creator.
DirectCalls ==
    { [decisions |-> SubSeq(allDecisions, 1, k),
       features |-> extractFeatures(
                        JobEntity(title, NoText, TRUE, client, Assignee),
                        [userId |-> ctxUser, currentCapacity |-> Undefined,
                         availableTechs |-> <<>>],
                        Saturday7)] :
        k \in 0..Len(rules), title \in {NoText, TitleKitchen},
        client \in {NoClient, ClientVipOld}, ctxUser \in {Absent, "u-angelo"} }

\* updateOutcome called or not after an analysis: the histories it leaves.
Feedback(history) ==
    {history} \cup { updateOutcome(history, Absent, outcome) :
                        outcome \in {"success", "failure"} }

\* The histories that n analyses with learning enabled and the feedback
\* calls between them can leave.
RECURSIVE HistoriesAfter(_)
HistoriesAfter(n) ==
    IF n = 0 THEN {<<>>}
    ELSE UNION { Feedback(analyze(in, history, TRUE).history) :
                    in \in HistoryInputs, history \in HistoriesAfter(n - 1) }

Histories == UNION { HistoriesAfter(n) : n \in 0..MaxAnalyses }

\* calculateConfidence(decisions, features) called on its own, with the
\* arguments that Init drew.
Score ==
    /\ ~score.called
    /\ score' = calculateConfidence(score.decisions, score.features, decisionHistory)
    /\ UNCHANGED <<env, decisionHistory, analysis, dispatch, serverVars, apiVars>>

\* updateOutcome(decisionId, outcome), the feedback call.
UpdateOutcome ==
    /\ \E decisionId \in {Absent, "decision-1"}, outcome \in {"success", "failure"} :
        decisionHistory' = updateOutcome(decisionHistory, decisionId, outcome)
    /\ UNCHANGED <<env, analysis, score, dispatch, serverVars, apiVars>>

RuleInit ==
    /\ ServerInit
    /\ env = [learningEnabled |-> FALSE]
    /\ decisionHistory = <<>>
    /\ analysis \in { [phase |-> "pending", input |-> in] : in \in RuleInputs }
    /\ score = [called |-> FALSE]
    /\ dispatch = [called |-> FALSE]
    /\ ApiIdle

RuleNext == AnalyzePending

\* One analysis of every input, the history empty.
RuleSpec == RuleInit /\ [][RuleNext]_vars

ConfidenceInit ==
    /\ ServerInit
    /\ env = [learningEnabled |-> TRUE]
    /\ decisionHistory \in Histories
    /\ analysis = [phase |-> "idle"]
    /\ score \in { [called |-> FALSE, decisions |-> c.decisions,
                    features |-> c.features] : c \in DirectCalls }
    /\ dispatch = [called |-> FALSE]
    /\ ApiIdle

ConfidenceNext == Score

\* One call of calculateConfidence for every history and every argument.
ConfidenceSpec == ConfidenceInit /\ [][ConfidenceNext]_vars

\* analyze(event, context) on one of the events, while the history holds
\* fewer than MaxAnalyses records of them.
Analyze ==
    /\ Len(SelectSeq(decisionHistory, LAMBDA h : h.event.itemId = "j1")) < MaxAnalyses
    /\ \E in \in EngineEvents :
       \E r \in {analyze(in, decisionHistory, env.learningEnabled)} :
        /\ analysis' = r.result
        /\ score' = IF r.scored THEN r.call ELSE score
        /\ decisionHistory' = r.history
    /\ UNCHANGED <<env, dispatch, serverVars, apiVars>>

\* executeDecisions(decisions, context) on the decisions of the last analysis
\* or on a list of the caller's.
ExecuteDecisions ==
    /\ \E call \in DispatchCalls \cup
                   { [c EXCEPT !.decisions = analysis.decisions] :
                        c \in {d \in DispatchCalls : analysis.phase = "done"} } :
        dispatch' = [called |-> TRUE,
                     decisions |-> call.decisions,
                     context |-> call.context,
                     platform |-> call.platform,
                     results |-> executeDecisions(call.decisions, call.context,
                                                  call.platform)]
    /\ UNCHANGED <<env, decisionHistory, analysis, score, serverVars, apiVars>>

\* executeDecisions(decisions, context) is called and runs to its first
\* await, or returns at once when no action is listed.
BeginDispatch ==
    /\ dispatch = [called |-> FALSE]
    /\ \E call \in DispatchCalls :
        dispatch' = nextAction([called |-> FALSE, pc |-> "start",
                                decisions |-> call.decisions,
                                context |-> call.context,
                                platform |-> call.platform,
                                d |-> 1, a |-> 1,
                                started |-> <<>>, results |-> <<>>])
    /\ UNCHANGED <<env, decisionHistory, analysis, score, serverVars, apiVars>>

\* The executeAction call that executeDecisions awaits returns or throws.
ActionSettles ==
    /\ dispatch # [called |-> FALSE]
    /\ dispatch.pc = "await"
    /\ dispatch' = settleAction(dispatch, dispatch.started[Len(dispatch.started)])
    /\ UNCHANGED <<env, decisionHistory, analysis, score, serverVars, apiVars>>

DispatchInit ==
    /\ ServerInit
    /\ EngineIdle

DispatchNext == BeginDispatch \/ ActionSettles

\* One call of executeDecisions, from await to await.
DispatchSpec == DispatchInit /\ [][DispatchNext]_vars

HistoryCapInit ==
    /\ ServerInit
    /\ env = [learningEnabled |-> TRUE]
    /\ decisionHistory \in FilledHistories
    /\ analysis = [phase |-> "idle"]
    /\ score = [called |-> FALSE]
    /\ dispatch = [called |-> FALSE]
    /\ ApiIdle

HistoryCapNext == Analyze

\* Analyses on a history that is at the cap of maxHistorySize records or
\* close under it.
HistoryCapSpec == HistoryCapInit /\ [][HistoryCapNext]_vars

EngineInit ==
    /\ ServerInit
    /\ env \in { [learningEnabled |-> b] : b \in BOOLEAN }
    /\ decisionHistory = <<>>
    /\ analysis = [phase |-> "idle"]
    /\ score = [called |-> FALSE]
    /\ dispatch = [called |-> FALSE]
    /\ ApiIdle

EngineNext == Analyze \/ ExecuteDecisions \/ UpdateOutcome

\* The calls of the engine in any order, with learning enabled and disabled.
EngineSpec == EngineInit /\ [][EngineNext]_vars

(***************************************************************************)
(* JobberAPI: the rate limiter.                                            *)
(***************************************************************************)
\* Lines 583-586: a call after the reset time starts a new window.
startWindow(limiter, t) ==
    IF t > limiter.resetTime
    THEN [requests |-> 0, resetTime |-> t + WindowTicks]
    ELSE limiter

\* Line 592 and line 595 after the wait: the counter is set to 0 and
\* incremented; resetTime is left as it is.
afterWait(limiter) == [limiter EXCEPT !.requests = 0 + 1]

\* checkRateLimit is called (lines 583-595) and runs to its end, or to the
\* await of line 591 when the counter is at maxRequests, with a timer due
\* after waitTime.
CheckRateLimit ==
    /\ Len(callers) < MaxCalls
    /\ LET limiter == startWindow(rateLimiter, clock) IN
        IF limiter.requests >= maxRequests
        THEN LET waitTime == limiter.resetTime - clock IN
             /\ rateLimiter' = limiter
             /\ callers' = Append(callers, [pc |-> "waiting", due |-> clock + waitTime,
                                            at |-> 0, zeroed |-> FALSE])
        ELSE /\ rateLimiter' = [limiter EXCEPT !.requests = @ + 1]
             /\ callers' = Append(callers, [pc |-> "admitted", due |-> clock,
                                            at |-> clock,
                                            zeroed |-> clock > rateLimiter.resetTime])
    /\ UNCHANGED <<clock, serverVars, env, decisionHistory, analysis, score, dispatch>>

\* The timer of line 591 fires for the caller c, at its due time or later,
\* and checkRateLimit runs to its end (lines 592-595).
TimerFires(c) ==
    /\ c \in 1..Len(callers)
    /\ callers[c].pc = "waiting"
    /\ clock >= callers[c].due
    /\ rateLimiter' = afterWait(rateLimiter)
    /\ callers' = [callers EXCEPT ![c].pc = "admitted", ![c].at = clock,
                                  ![c].zeroed = TRUE]
    /\ UNCHANGED <<clock, serverVars, env, decisionHistory, analysis, score, dispatch>>

\* Date.now() advances.
Tick ==
    /\ clock < MaxClock
    /\ clock' = clock + 1
    /\ UNCHANGED <<rateLimiter, callers, serverVars, env, decisionHistory,
                   analysis, score, dispatch>>

RateInit == ServerInit /\ EngineIdle

RateNext ==
    \/ CheckRateLimit
    \/ \E c \in 1..MaxCalls : TimerFires(c)
    \/ Tick

\* Callers of checkRateLimit at any time, and their timers.
RateSpec == RateInit /\ [][RateNext]_vars

(***************************************************************************)
(* Claims about the server.                                                *)
(***************************************************************************)
Queued(i) == i <= Len(reqs) /\ reqs[i].fate # "none"
Pending(i) == i <= Len(reqs) /\ reqs[i].fate \in {"queued", "inflight"}
Terminal(i) == i <= Len(reqs) /\ reqs[i].fate \in {"processed", "dropped"}
Quiet == webhookQueue = <<>> /\ ~processing /\ drains = <<>>

\* C1: at most one drain loop is past the guard of processQueue at any
\* instant, whatever queueWebhook calls interleave with the awaits of a
\* running drain.
C1_AtMostOneDrain == Len(drains) <= 1

\* A drain is suspended while a later queueWebhook call has left an entry in
\* the queue.
C1_Witness == Len(drains) = 1 /\ processing /\ Len(webhookQueue) > 0

\* C2: an entry whose processing throws k times, 0 < k < 3, and then would
\* return is re-enqueued after each failure and ends processed with its
\* retries field equal to k.
C2_RetriedThenProcessed ==
    \A i \in 1..Len(reqs) :
        (reqs[i].plan \in 1..(RetryCeiling - 1) /\ Terminal(i))
            => (reqs[i].fate = "processed" /\ reqs[i].finalRetries = reqs[i].plan)

C4_EveryEntryTerminates ==
    /\ \A i \in 1..MaxRequests :
          Pending(i) ~> (Terminal(i) /\ reqs[i].attempts >= 1)
    /\ <>[](Quiet /\ \A i \in 1..Len(reqs) : Queued(i) => Terminal(i))

\* Two entries, the second queued while the drain of the first was running,
\* have both reached their outcome and the drain has exited.
C4_Witness ==
    /\ Quiet
    /\ \E i, j \in 1..Len(reqs) :
          /\ i < j
          /\ reqs[i].fate = "processed"
          /\ reqs[j].fate = "dropped"
          /\ reqs[j].ackAtHandoff = "sent"

\* C5: every event accepted at an intake route is queued and answered with
\* success, and the response is sent before the agent is first called for it.
C5_AckBeforeProcessing ==
    \A i \in 1..Len(reqs) :
        Queued(i) => (reqs[i].status = 200 /\ reqs[i].ackAtHandoff # "unsent")

\* C6: every entry that was ever queued came from a request whose signature
\* passed validation, whatever the route.
C6_OnlyValidatedQueued ==
    \A i \in 1..Len(reqs) : Queued(i) => validateWebhook(reqs[i].sig)

\* The key under which queueWebhook counts the event of request i.
UserKey(i) == JsOrStr(reqs[i].event.userId, "unknown")

Received == { i \in 1..Len(reqs) : Queued(i) }

InFlight == { i \in 1..Len(reqs) : reqs[i].fate = "inflight" }

RECURSIVE SumOver(_, _)
SumOver(m, keys) ==
    IF keys = {} THEN 0
    ELSE LET k == CHOOSE x \in keys : TRUE
         IN m[k] + SumOver(m, keys \ {k})

\* C13 as stated: the uniqueUsers of getStats is the number of distinct
\* userId values of the events that have been processed.
C13_UniqueUsersOfProcessed ==
    getStats(Server).uniqueUsers
        = Cardinality({ reqs[i].event.userId :
                          i \in { j \in 1..Len(reqs) : reqs[j].fate = "processed" } })

\* C13 as amended: the uniqueUsers of getStats is the number of distinct
\* userId values of the events that queueWebhook has received, processed or
\* not, an event without a userId counting as the user 'unknown'.
C13_UniqueUsersOfReceived ==
    getStats(Server).uniqueUsers = Cardinality({ UserKey(i) : i \in Received })

\* Three events of two users have been received and one of them is not yet
\* processed: uniqueUsers is 2.
C13_Witness ==
    /\ stats.received = 3
    /\ getStats(Server).uniqueUsers = 2
    /\ \E i \in Received : reqs[i].fate # "processed"
    /\ \E i \in Received : reqs[i].fate = "processed"

\* C14: byUser holds one entry for every user that an event came from, an
\* event without a userId counting as 'unknown', with the number of that
\* user's events as its count, and the counts of byUser and those of byTopic
\* each add up to stats.received.
C14_PerUserCounts ==
    /\ DOMAIN stats.byUser = { UserKey(i) : i \in Received }
    /\ \A key \in DOMAIN stats.byUser :
          stats.byUser[key] = Cardinality({ i \in Received : UserKey(i) = key })
    /\ SumOver(stats.byUser, DOMAIN stats.byUser) = stats.received
    /\ SumOver(stats.byTopic, DOMAIN stats.byTopic) = stats.received

\* Two events, of u-angelo and of u-austin, have been processed one after
\* the other: two entries of count 1 and uniqueUsers = 2.
C14_Witness ==
    /\ Len(reqs) = 2
    /\ reqs[1].event.userId = "u-angelo" /\ reqs[1].fate = "processed"
    /\ reqs[2].event.userId = "u-austin" /\ reqs[2].fate = "processed"
    /\ stats.byUser = [k \in {"u-angelo", "u-austin"} |-> 1]
    /\ getStats(Server).uniqueUsers = 2

\* C16: entries are handed to the agent for their first attempt in the order
\* in which queueWebhook enqueued them (the order of the requests): an entry
\* has had an attempt only if every entry enqueued before it has had one.
C16_FirstAttemptsInOrder ==
    \A i, j \in Received :
        (i < j /\ reqs[j].attempts >= 1) => reqs[i].attempts >= 1

\* The first entry is done, the second is with the agent, and the third,
\* enqueued while the drain was running, waits in the queue.
C16_Witness ==
    /\ Len(reqs) = 3 /\ Received = {1, 2, 3}
    /\ Terminal(1)
    /\ reqs[2].fate = "inflight" /\ reqs[2].attempts = 1
    /\ reqs[3].fate = "queued" /\ reqs[3].attempts = 0
    /\ Len(webhookQueue) = 1 /\ webhookQueue[1].id = 3

\* C17: at most one entry is in flight, dequeued and not yet finished by
\* agent.processWebhook, and at most one drain is at that call: an entry is
\* dequeued only after the call for the one before it has returned or thrown.
C17_OneEntryInFlight ==
    /\ Cardinality(InFlight) <= 1
    /\ Cardinality({ d \in 1..Len(drains) : drains[d].pc = "agent" }) <= 1

\* One entry is with the agent while two that arrived after it wait in the
\* queue.
C17_Witness ==
    /\ InFlight = {1}
    /\ Len(webhookQueue) = 2
    /\ processing

\* C18: when shutdown() has completed the server accepts no request, the
\* queue is empty and no entry is in flight.
C18_ShutdownWaitsForDrain ==
    lifecycle.shutdown = "complete" =>
        /\ ~lifecycle.listening
        /\ webhookQueue = <<>>
        /\ InFlight = {}

(***************************************************************************)
(* Claims about the decision engine.                                       *)
(***************************************************************************)
Analyzed == analysis.phase = "done" /\ ~analysis.threw

Matched(ruleName) == \E d \in Range(analysis.decisions) : d.rule = ruleName

\* What it means for one listed condition of a rule to be satisfied by a
\* feature set.  The conditions no feature answers to (timeWindow,
\* responseTime, multiplier, daysSinceCreation, requiresInspection) are
\* never satisfied.
ConditionSatisfied(key, conditions, features) ==
    CASE key = "keywords" -> features.hasEmergencyKeywords
      [] key = "clientValue" -> features.clientLifetimeValue >= conditions.clientValue
      [] key = "dayOfWeek" -> features.dayOfWeek \in Range(conditions.dayOfWeek)
      [] key = "isNewClient" -> features.isNewClient
      [] key = "dailyCapacityThreshold" ->
            features.currentCapacity >= conditions.dailyCapacityThreshold
      [] key = "weeklyCapacityThreshold" ->
            features.currentCapacity >= conditions.weeklyCapacityThreshold
      [] key = "unassignedDuration" -> ~features.isAssigned
      [] key = "hasAvailableTech" -> Len(features.availableTechs) > 0
      [] key = "jobType" ->
            \E k \in 1..Len(conditions.jobType) :
                includes(features.jobTitle, conditions.jobType[k])
      [] OTHER -> FALSE

OneOfTwo(rule, features) ==
    /\ \E key \in DOMAIN rule.conditions :
            ConditionSatisfied(key, rule.conditions, features)
    /\ \E key \in DOMAIN rule.conditions :
            ~ConditionSatisfied(key, rule.conditions, features)

TableIndex(ruleName) == CHOOSE k \in 1..Len(rules) : rules[k].name = ruleName

\* C8: the decisions applyRules returns are in descending order of priority,
\* and two decisions of the same priority are in the order of the rule
\* table.
C8_SortedByPriority ==
    Analyzed =>
        \A i, j \in 1..Len(analysis.decisions) :
            i < j =>
                LET a == analysis.decisions[i]
                    b == analysis.decisions[j]
                IN \/ a.priority > b.priority
                   \/ a.priority = b.priority
                        /\ TableIndex(a.rule) < TableIndex(b.rule)

C8_Witness ==
    /\ Analyzed
    /\ Len(analysis.decisions) = 6
    /\ analysis.decisions[1].rule = "emergencyResponse"
    /\ analysis.decisions[6].rule = "autoAssignment"

\* C9: whatever the title, client name and creator id, whatever the number
\* of decisions from 0 to 7 and whatever the history holds, the confidence
\* calculateConfidence returns is at least 0 and at most 1.
C9_ConfidenceInUnitInterval ==
    score.called =>
        /\ DLeq[DZero, score.confidence]
        /\ DLeq[score.confidence, One]

\* Seven decisions, every completeness increment and a history whose
\* comparable records all succeeded: the confidence is exactly 1.
C9_Witness ==
    /\ score.called
    /\ Len(score.decisions) = 7
    /\ score.historyLen > 0
    /\ score.historical = One
    /\ score.confidence = One

\* A record is comparable to a call when it has the call's job status and
\* weekend flag and shares a rule with the call's decisions.
Comparable(h, call) ==
    /\ h.features.present
    /\ h.features.jobStatus = call.features.jobStatus
    /\ h.features.isWeekend = call.features.isWeekend
    /\ \E d \in Range(h.decisions), curr \in Range(call.decisions) : curr.rule = d.rule

\* The records the history held when the call was made.
HistoryAtCall == SubSeq(decisionHistory, 1, score.historyLen)

\* C10: when the history is empty or holds no record comparable to the
\* current analysis, checkHistoricalSuccess returns exactly 0.75 and the
\* confidence is 0.7 * running score + 0.3 * 0.75.
C10_DefaultHistoricalRatio ==
    (score.called /\ \A h \in Range(HistoryAtCall) : ~Comparable(h, score)) =>
        /\ score.historical = DLit[3, 4]
        /\ score.confidence =
                DAdd[DMul[DLit[7, 10], score.running], DMul[DLit[3, 10], DLit[3, 4]]]

\* A history that is not empty, one of its records with the call's status
\* and weekend flag but no rule in common, and the default is returned.
C10_Witness ==
    /\ score.called
    /\ score.historyLen > 0
    /\ \E h \in Range(HistoryAtCall) :
        /\ h.features.present
        /\ h.features.jobStatus = score.features.jobStatus
        /\ h.features.isWeekend = score.features.isWeekend
        /\ Len(h.decisions) > 0
    /\ Len(score.decisions) > 0
    /\ \A h \in Range(HistoryAtCall) : ~Comparable(h, score)
    /\ score.historical = DLit[3, 4]

\* The analysis that returned last is the last record of the history.
\* The last analysis left one more record, its own, at the end of the history.
RecordedLast ==
    /\ Len(decisionHistory) = analysis.historyLen + 1
    /\ decisionHistory[Len(decisionHistory)].event = analysis.input.event
    /\ decisionHistory[Len(decisionHistory)].decisions = analysis.decisions
    /\ decisionHistory[Len(decisionHistory)].confidence = analysis.confidence

\* The last analysis left the history as long as it found it.
NotRecorded == Len(decisionHistory) = analysis.historyLen

BelowThreshold ==
    analysis.phase = "done" /\ ~DLeq[confidenceThreshold, analysis.confidence]

RECURSIVE ListedActions(_)
ListedActions(decisions) ==
    IF decisions = <<>> THEN <<>>
    ELSE Head(decisions).actions \o ListedActions(Tail(decisions))

\* The actions that throw: a name for which actionMap holds no function,
\* and autoAssignTech when context.availableTechs is missing or the platform
\* refuses the assignment it asks for.
Throws(action, context, platform) ==
    \/ action \notin ActionNames \cup {"constructor", "toString"}
    \/ /\ action = "autoAssignTech"
       /\ \/ ~context.hasTechs
          \/ /\ context.availableTechs # <<>>
             /\ context.jobId # Absent
             /\ platform.assign = "throws"

\* C12: executeDecisions returns exactly one record for every listed
\* action, in the order of the list; the record of an action that throws, an
\* unknown name included, is {action, success: false, error}, and every other
\* action of the same decision and of the later decisions still has its own
\* record with success: true.
C12_OneRecordPerAction ==
    dispatch.called =>
        LET listed == ListedActions(dispatch.decisions) IN
        /\ Len(dispatch.results) = Len(listed)
        /\ \A i \in 1..Len(listed) :
            /\ dispatch.results[i].action = listed[i]
            /\ dispatch.results[i].success
                    = ~Throws(listed[i], dispatch.context, dispatch.platform)
            /\ dispatch.results[i].success <=> dispatch.results[i].error = Absent

\* The second action of the first decision is unknown and the first action
\* of the second decision is refused by the platform: both are failures, and
\* the actions after each of them succeeded.
C12_Witness ==
    /\ dispatch.called
    /\ Len(dispatch.decisions) = 2
    /\ Len(dispatch.results) = 5
    /\ dispatch.results[1].success
    /\ ~dispatch.results[2].success /\ dispatch.results[2].error = "Unknown action"
    /\ dispatch.results[3].success
    /\ ~dispatch.results[4].success /\ dispatch.results[4].error = "Failed to assign job"
    /\ dispatch.results[5].success

\* The job that the analysis fetched has an emergency keyword in its title or
\* its description, in any letter case.
EmergencyJob ==
    /\ Analyzed
    /\ analysis.input.event.topic = "JOB_CREATE"
    /\ \E k \in 1..Len(rules[1].conditions.keywords) :
        \/ includes(toLowerCase(analysis.input.api.entity.title),
                    rules[1].conditions.keywords[k])
        \/ includes(toLowerCase(analysis.input.api.entity.description),
                    rules[1].conditions.keywords[k])

\* C15: for a JOB_CREATE event whose job has an emergency keyword in its
\* title or description, hasEmergencyKeywords is true, emergencyResponse is
\* the first decision, the confidence is at least 0.7 and the analysis is
\* marked for execution.
C15_EmergencyDispatched ==
    EmergencyJob =>
        /\ analysis.features.hasEmergencyKeywords
        /\ Len(analysis.decisions) > 0
        /\ analysis.decisions[1].rule = "emergencyResponse"
        /\ DLeq[DLit[7, 10], analysis.confidence]
        /\ analysis.shouldExecute

\* C19: after every recordDecision call the history holds at most
\* maxHistorySize (1000) records; the call appends its record at the end,
\* and when the history was full the record that leaves is the oldest one,
\* the others keeping their order.
C19_CappedFifo ==
    [][decisionHistory' # decisionHistory =>
        /\ Len(decisionHistory') <= maxHistorySize
        /\ decisionHistory'[Len(decisionHistory')].event = analysis'.input.event
        /\ decisionHistory'[Len(decisionHistory')].outcome = "pending"
        /\ IF Len(decisionHistory) = maxHistorySize
           THEN SubSeq(decisionHistory', 1, maxHistorySize - 1) = Tail(decisionHistory)
           ELSE SubSeq(decisionHistory', 1, Len(decisionHistory)) = decisionHistory
    ]_vars

\* The history was full and two analyses were recorded: the two oldest
\* records have left, the third is the first now, and the two new records
\* are the last.
C19_Witness ==
    /\ Len(decisionHistory) = maxHistorySize
    /\ decisionHistory[1].event.occurredAt = 3
    /\ decisionHistory[maxHistorySize - 2].event.occurredAt = maxHistorySize
    /\ decisionHistory[maxHistorySize - 1].event.itemId = "j1"
    /\ decisionHistory[maxHistorySize].event.itemId = "j1"

\* C20: every call of analyze appends exactly one record to the decision
\* history, the analyses under the threshold and those in which enrichment
\* or scoring threw included.
C20_EveryAnalysisRecorded ==
    analysis.phase = "done" =>
        /\ Len(decisionHistory) = analysis.historyLen + 1
        /\ decisionHistory[Len(decisionHistory)].event = analysis.input.event

\* The record at position k of the history has taken the outcome and no
\* other record has changed.
OutcomeSet(before, after, k, outcome) ==
    /\ Len(after) = Len(before)
    /\ after[k] = [before[k] EXCEPT !.outcome = outcome]
    /\ \A j \in 1..Len(before) : j # k => after[j] = before[j]

\* The ids a feedback call may pass: none, and an id of the caller's.
FeedbackIds == {Absent, "decision-1"}

\* C21: for every record of the history there is an id with which
\* updateOutcome(id, o) sets the outcome of that record to o and changes no
\* other record, and every outcome is pending, success or failure.
C21_FeedbackReachesRecord ==
    /\ \A k \in 1..Len(decisionHistory) :
        decisionHistory[k].outcome \in {"pending", "success", "failure"}
    /\ \A k \in 1..Len(decisionHistory) : \E decisionId \in FeedbackIds :
        \A outcome \in {"success", "failure"} :
            OutcomeSet(decisionHistory,
                       updateOutcome(decisionHistory, decisionId, outcome),
                       k, outcome)

\* C21, what holds: a call without an id sets the outcome of the oldest
\* record, and a call with an id changes nothing.
C21_OnlyOldestRecord ==
    \A outcome \in {"success", "failure"} :
        /\ Len(decisionHistory) > 0 =>
            OutcomeSet(decisionHistory,
                       updateOutcome(decisionHistory, Absent, outcome), 1, outcome)
        /\ updateOutcome(decisionHistory, "decision-1", outcome) = decisionHistory

\* C22: when agent.processWebhook throws for an entry, the failure is
\* counted and webhookFailed is emitted, the drain stays in its loop with
\* processing set, every entry that is in the queue afterwards or comes
\* into it is handed to the agent, and the drain exits with processing
\* reset.
C22_FailureNotFatal ==
    /\ [][\A i \in 1..Len(reqs) :
            (reqs[i].fate = "inflight" /\ reqs'[i].fate \in {"queued", "dropped"}) =>
                /\ stats'.failed = stats.failed + 1
                /\ reqs'[i].webhookFailed = reqs[i].webhookFailed + 1
                /\ processing'
                /\ Len(drains') = Len(drains)
                /\ \A d \in 1..Len(drains) :
                    (drains[d].pc = "agent" /\ drains[d].webhook.id = i)
                        => drains'[d].pc = "delay"
      ]_vars
    /\ \A j \in 1..MaxRequests :
        (stats.failed > 0 /\ j <= Len(reqs) /\ reqs[j].fate = "queued")
            ~> (j <= Len(reqs) /\ reqs[j].fate = "inflight")
    /\ (stats.failed > 0) ~> Quiet

\* The processing of an entry threw, an entry that came into the queue
\* during that call was processed after it, and the drain has exited.
C22_Witness ==
    /\ Quiet
    /\ stats.failed = 1
    /\ stats.processed = 1
    /\ \E i, j \in 1..Len(reqs) :
          /\ i < j
          /\ reqs[i].fate = "dropped"
          /\ reqs[i].webhookFailed = 1
          /\ reqs[j].fate = "processed"
          /\ reqs[j].ackAtHandoff = "sent"

\* No count of the map m is lower in n, and no key has left it.
MapGrows(m, n) ==
    \A k \in DOMAIN m : k \in DOMAIN n /\ n[k] >= m[k]

\* The step answers a read: a request of the route was added.
ReadStep(route) ==
    /\ Len(reqs') = Len(reqs) + 1
    /\ reqs'[Len(reqs')].route = route

\* C23: no step lowers received, processed, failed or a per-user or
\* per-topic count, and a read of /status (getStats) or /metrics answers
\* with the counters as they are and changes none of them.
C23_CountersMonotonic ==
    [][/\ stats'.received >= stats.received
       /\ stats'.processed >= stats.processed
       /\ stats'.failed >= stats.failed
       /\ MapGrows(stats.byUser, stats'.byUser)
       /\ MapGrows(stats.byTopic, stats'.byTopic)
       /\ ReadStep("status") =>
            /\ stats' = stats
            /\ reqs'[Len(reqs')].answer.stats.received = stats.received
            /\ reqs'[Len(reqs')].answer.stats.processed = stats.processed
            /\ reqs'[Len(reqs')].answer.stats.failed = stats.failed
            /\ reqs'[Len(reqs')].answer.stats.byUser = stats.byUser
            /\ reqs'[Len(reqs')].answer.stats.byTopic = stats.byTopic
       /\ ReadStep("metrics") =>
            /\ stats' = stats
            /\ reqs'[Len(reqs')].answer.webhooks.received = stats.received
            /\ reqs'[Len(reqs')].answer.webhooks.processed = stats.processed
            /\ reqs'[Len(reqs')].answer.webhooks.failed = stats.failed
    ]_vars

\* An event was received and processed, /status was read, and a second
\* event of the same user failed after the read: the read returned counts
\* of 1, 1 and 0 and the counters stand at 2, 1 and 1.
C23_Witness ==
    /\ Len(reqs) = 3
    /\ reqs[2].route = "status"
    /\ reqs[2].status = 200
    /\ reqs[2].answer.stats.received = 1
    /\ reqs[2].answer.stats.processed = 1
    /\ reqs[2].answer.stats.failed = 0
    /\ stats.received = 2
    /\ stats.processed = 1
    /\ stats.failed = 1
    /\ \E u \in DOMAIN stats.byUser : stats.byUser[u] = 2

\* The last analysis is one whose enrichment threw: the fetch of the
\* entity, or the fetch of the roster after the job was fetched.
EnrichmentThrew ==
    /\ analysis.phase = "done"
    /\ analysis.input.event.topic \in HandledTopics
    /\ \/ analysis.input.api.fetch = "throws"
       \/ /\ analysis.input.event.topic \in JobTopics
          /\ ~analysis.input.api.entity.isNull
          /\ analysis.input.api.roster = "throws"

\* C24: when the enrichment of an event throws, the analyze call throws, so
\* that the drain loop sees a failure of the entry and re-enqueues it.
C24_EnrichmentFailurePropagates ==
    EnrichmentThrew => analysis.promise = "rejected"

\* C25: analyze never throws; an analysis in which a stage threw returns
\* decisions = [], confidence = 0 and shouldExecute = false.
C25_AnalyzeNeverThrows ==
    analysis.phase = "done" =>
        /\ analysis.promise = "fulfilled"
        /\ analysis.threw = EnrichmentThrew
        /\ analysis.threw =>
            /\ analysis.decisions = <<>>
            /\ analysis.confidence = DZero
            /\ ~analysis.shouldExecute
            /\ Len(decisionHistory) = analysis.historyLen

\* The job of an emergency was fetched and the fetch of the roster threw:
\* the analysis has returned the empty result.
C25_Witness ==
    /\ EnrichmentThrew
    /\ analysis.input.api.fetch = "ok"
    /\ analysis.input.api.entity.title = TitleEmergency
    /\ analysis.promise = "fulfilled"
    /\ analysis.decisions = <<>>
    /\ analysis.confidence = DZero
    /\ ~analysis.shouldExecute

\* The last analysis is of a JOB_* event whose job was fetched.
JobFetched ==
    /\ analysis.phase = "done"
    /\ analysis.input.event.topic \in JobTopics
    /\ analysis.input.api.fetch = "ok"
    /\ ~analysis.input.api.entity.isNull

\* The roster was fetched and does not hold the user of the event.
NotInRoster ==
    /\ analysis.input.api.roster = "ok"
    /\ \A k \in 1..Len(analysis.input.api.users) :
        analysis.input.api.users[k].id # analysis.input.event.userId

\* The analysis went on with an unknown creator: the rules were evaluated
\* on the features and the decisions were scored.
WentOnUnknown ==
    /\ ~analysis.threw
    /\ analysis.features.createdByUserName = "Unknown"
    /\ analysis.decisions = applyRules(analysis.features)
    /\ score.called
    /\ score.confidence = analysis.confidence

\* C26: for a JOB_* event whose job was fetched, an analysis in which the
\* roster fetch failed or the roster does not hold the user goes on with
\* the creator name 'Unknown', and the rules are evaluated and scored.
C26_CreatorFailOpen ==
    (JobFetched /\ (analysis.input.api.roster = "throws" \/ NotInRoster))
        => WentOnUnknown

\* C26, what holds: a user that the fetched roster does not hold leaves the
\* creator unknown and the analysis goes on; a roster fetch that throws
\* ends the analysis with the empty result.
C26_RosterFailureAborts ==
    /\ (JobFetched /\ NotInRoster) => WentOnUnknown
    /\ (JobFetched /\ analysis.input.api.roster = "throws") =>
        (analysis.threw /\ analysis.decisions = <<>> /\ ~analysis.shouldExecute)

\* The last analysis is of an event whose topic is not handled.
UnhandledTopic ==
    /\ analysis.phase = "done"
    /\ analysis.input.event.topic \notin HandledTopics

\* Every feature that is read from the entity has its default value.
EntityDefaults(features, context) ==
    /\ features.jobTitle = NoText
    /\ features.jobDescription = NoText
    /\ features.jobStatus = ""
    /\ features.jobValue = 0
    /\ ~features.hasEmergencyKeywords
    /\ features.clientName = ""
    /\ features.clientEmail = ""
    /\ ~features.isNewClient
    /\ features.clientLifetimeValue = 0
    /\ features.createdByUserId = context.userId
    /\ features.createdByUserName = "Unknown"
    /\ features.createdByUserRole = "Unknown"
    /\ ~features.isAssigned
    /\ features.assignedToId = Absent
    /\ features.assignedToName = ""
    /\ features.city = ""

\* C27: for an event whose topic is not handled no fetch of the platform is
\* made, neither of an entity nor of the roster; the analysis goes on with
\* the defaults for every feature read from the entity, evaluates the rules
\* and computes a confidence.
C27_UnhandledTopicNoFetch ==
    UnhandledTopic =>
        /\ analysis.fetches = <<>>
        /\ ~analysis.threw
        /\ EntityDefaults(analysis.features, analysis.input.context)
        /\ analysis.decisions = applyRules(analysis.features)
        /\ score.called
        /\ score.features = analysis.features
        /\ score.confidence = analysis.confidence

\* A PAYMENT_RECORDED event while the platform is unreachable: the analysis
\* has made no fetch and returned the two decisions that the context alone
\* gives.
C27_Witness ==
    /\ UnhandledTopic
    /\ analysis.input.api.fetch = "throws"
    /\ analysis.fetches = <<>>
    /\ EntityDefaults(analysis.features, analysis.input.context)
    /\ Len(analysis.decisions) = 2
    /\ score.called

\* The decisions of the last analysis that are made for the rule.
DecisionsOf(ruleName) ==
    { i \in 1..Len(analysis.decisions) : analysis.decisions[i].rule = ruleName }

\* C28: applyRules evaluates every rule of the table: each rule that
\* evaluateRule accepts for the features has exactly one decision, with the
\* rule's priority and actions, whatever rules come before it in the table;
\* a rule it does not accept has none, and a rule none of whose conditions
\* is satisfied is not among the decisions.
C28_EveryRuleEvaluated ==
    Analyzed =>
        /\ \A k \in 1..Len(rules) :
            /\ Cardinality(DecisionsOf(rules[k].name)) =
                    IF evaluateRule(rules[k], analysis.features) THEN 1 ELSE 0
            /\ \A i \in DecisionsOf(rules[k].name) :
                /\ analysis.decisions[i].priority = rules[k].priority
                /\ analysis.decisions[i].actions = rules[k].actions
                /\ \E key \in DOMAIN rules[k].conditions :
                    ConditionSatisfied(key, rules[k].conditions, analysis.features)
        /\ \A i \in 1..Len(analysis.decisions) :
            \E k \in 1..Len(rules) : rules[k].name = analysis.decisions[i].rule

\* An emergency job of a new VIP client, unassigned, on a Saturday with the
\* capacity over the threshold and a technician free: the first six rules
\* of the table all have their decision, and qualityControl, of which no
\* condition is satisfied, has none.
C28_Witness ==
    /\ Analyzed
    /\ Len(analysis.decisions) = 6
    /\ \A k \in 1..6 : Matched(rules[k].name)
    /\ ~Matched("qualityControl")
    /\ \A key \in DOMAIN rules[7].conditions :
        ~ConditionSatisfied(key, rules[7].conditions, analysis.features)

\* A call of executeDecisions was made and has not returned.
Dispatching == dispatch # [called |-> FALSE] /\ dispatch.pc = "await"

Dispatched == dispatch # [called |-> FALSE] /\ dispatch.pc = "done"

\* C29: executeDecisions starts the actions in the order of the decisions
\* given and, within a decision, in the listed order; an action is started
\* only when the one before it has settled and has its record; and the
\* i-th record of the result belongs to the i-th action of that order.
C29_ActionsInOrder ==
    (Dispatching \/ Dispatched) =>
        LET listed == ListedActions(dispatch.decisions) IN
        /\ dispatch.started = SubSeq(listed, 1, Len(dispatch.started))
        /\ Len(dispatch.results) =
                IF Dispatching THEN Len(dispatch.started) - 1 ELSE Len(listed)
        /\ \A i \in 1..Len(dispatch.results) : dispatch.results[i].action = listed[i]
        /\ Dispatched =>
            /\ dispatch.started = listed
            /\ dispatch.results = executeDecisions(dispatch.decisions, dispatch.context,
                                                   dispatch.platform)

\* The caller's decision of priority 1 was given before autoAssignment of
\* priority 50: its three actions have their records, the second a failure,
\* autoAssignTech is awaited and notifyAssignment has not been started.
C29_Witness ==
    /\ Dispatching
    /\ dispatch.decisions = <<CustomDecision, allDecisions[6]>>
    /\ dispatch.started = <<"notifyOnCall", "launchRocket", "notifyManager",
                            "autoAssignTech">>
    /\ Len(dispatch.results) = 3
    /\ ~dispatch.results[2].success
    /\ dispatch.results[3].action = "notifyManager"

\* The only record of the history is that of the last analysis, which
\* matched a rule, and the step analyses the same input again: the features
\* and the decisions of the two analyses are the same.
AnalyzedAgain ==
    /\ Analyzed
    /\ analysis.historyLen = 0
    /\ Len(decisionHistory) = 1
    /\ Len(analysis.decisions) > 0
    /\ Len(decisionHistory') = 2
    /\ analysis'.input = analysis.input
    /\ analysis'.features = analysis.features
    /\ analysis'.decisions = analysis.decisions

\* C30: when the history holds the record of an earlier analysis with the
\* job status, the weekend flag and a rule of the current one, the
\* historical component of calculateConfidence is the share of those
\* records whose outcome is success: with one such record, 1 if its outcome
\* is success and 0 if not.
C30_HistoryInforms ==
    [][AnalyzedAgain =>
        /\ score'.called
        /\ score'.historical =
                IF decisionHistory[1].outcome = "success" THEN One ELSE DZero
    ]_vars

\* C30, what holds: the record of the earlier analysis holds the features
\* of the event payload, not those of the analysis, is not similar to the
\* current features, and the historical component is the default.
C30_HistoryIgnored ==
    [][AnalyzedAgain =>
        /\ score'.called
        /\ score'.historical = DefaultSuccessRate
        /\ decisionHistory[1].features = analysis.input.event.features
    ]_vars

\* The positions of the records that are comparable to the call by the
\* features they hold.
ComparableAt == { i \in 1..score.historyLen : Comparable(decisionHistory[i], score) }

\* C30, for the features that the records hold: when a record is
\* comparable to the call by them, the historical component is the number
\* of the comparable records with outcome success over their number.
C30_RatioOverStoredFeatures ==
    (score.called /\ ComparableAt # {}) =>
        score.historical =
            DDivInt[DInt[Cardinality({ i \in ComparableAt :
                                          decisionHistory[i].outcome = "success" })],
                    Cardinality(ComparableAt)]

\* The step is a failure of the entry of request i, in flight in drain d.
FailureStep(i, d) ==
    /\ d \in 1..Len(drains)
    /\ drains[d].pc = "agent"
    /\ drains[d].webhook.id = i
    /\ reqs[i].fate = "inflight"
    /\ reqs'[i].fate \in {"queued", "dropped"}

\* The entry after is the entry before with one more retry and the time of
\* the next one, 2^retries seconds from now.
Reenqueued(before, after) ==
    /\ after.id = before.id
    /\ after.event = before.event
    /\ after.receivedAt = before.receivedAt
    /\ after.userId = before.userId
    /\ after.userName = before.userName
    /\ after.retries = JsOrNum(before.retries, 0) + 1
    /\ after.nextRetry = Pow2(after.retries)

\* C31: an entry that fails under the retry ceiling is re-enqueued with its
\* id, event, receivedAt, userId and userName unchanged, its retries one
\* higher, from 0 for a fresh entry, and its next-retry time 2^retries
\* seconds from now.
C31_ReenqueueKeepsIdentity ==
    [][\A i \in 1..Len(reqs), d \in 1..Len(drains) :
        (FailureStep(i, d) /\ reqs[i].attempts < RetryCeiling) =>
            /\ Len(webhookQueue') = Len(webhookQueue) + 1
            /\ Reenqueued(drains[d].webhook, webhookQueue'[Len(webhookQueue')])
    ]_vars

\* C32: an entry that fails under the retry ceiling is at the tail of the
\* queue at once, and the drain hands the head of the queue to the agent
\* whenever it goes round, whatever the next-retry time of the head is, so
\* that the entry is handed over again without its backoff.
C32_RetryNotDelayed ==
    /\ [][\A i \in 1..Len(reqs), d \in 1..Len(drains) :
            (FailureStep(i, d) /\ reqs[i].attempts < RetryCeiling) =>
                /\ webhookQueue' # <<>>
                /\ webhookQueue'[Len(webhookQueue')].id = i
                /\ reqs'[i].fate = "queued"
       ]_vars
    /\ [][\A d \in 1..Len(drains) :
            (drains[d].pc = "delay" /\ webhookQueue # <<>>) =>
                /\ Len(drains') = Len(drains)
                /\ drains'[d].pc = "agent"
                /\ drains'[d].webhook = Head(webhookQueue)
                /\ webhookQueue' = Tail(webhookQueue)
       ]_vars

\* C32, what holds: the drain takes the head of the queue whenever it goes
\* round, and no entry is handed to the agent a second time.
C32_NoRetryStarts ==
    /\ [][\A d \in 1..Len(drains) :
            (drains[d].pc = "delay" /\ d <= Len(drains') /\ drains'[d].pc = "agent") =>
                /\ drains'[d].webhook = Head(webhookQueue)
                /\ webhookQueue' = Tail(webhookQueue)
       ]_vars
    /\ [][\A i \in 1..Len(reqs) : reqs'[i].attempts <= 1]_vars

\* A field of the entity that is absent has its default in the features.
DefaultsForAbsent(data, features, context) ==
    /\ data.title = NoText => features.jobTitle = NoText
    /\ data.description = NoText => features.jobDescription = NoText
    /\ (data.title = NoText /\ data.description = NoText)
            => ~features.hasEmergencyKeywords
    /\ data.status = Absent => features.jobStatus = ""
    /\ data.total = Undefined => features.jobValue = 0
    /\ ~data.client.present =>
            /\ features.clientName = ""
            /\ features.clientEmail = ""
            /\ ~features.isNewClient
            /\ features.clientLifetimeValue = 0
    /\ (data.client.present /\ data.client.totalRevenue = Undefined)
            => features.clientLifetimeValue = 0
    /\ (data.client.present /\ data.client.jobCount = Undefined)
            => ~features.isNewClient
    /\ ~data.assignedTo.present =>
            /\ ~features.isAssigned
            /\ features.assignedToId = Absent
            /\ features.assignedToName = ""
    /\ ~data.property.present => features.city = ""
    /\ ~data.createdByUser.present =>
            /\ features.createdByUserId = context.userId
            /\ features.createdByUserName = "Unknown"
            /\ features.createdByUserRole = "Unknown"

C34_NoEntryStranded ==
    /\ [](~processing => webhookQueue = <<>>)
    /\ [](webhookQueue # <<>> => (processing /\ Len(drains) = 1))
    /\ [][webhookQueue # <<>> =>
            /\ processing'
            /\ Len(drains') = 1
            /\ drains'[1].pc \in {"agent", "delay"}
            /\ drains[1].pc = "delay" =>
                    (drains'[1].pc = "agent" => drains'[1].webhook = Head(webhookQueue))
       ]_vars

\* The first entry has left the drain, which is in its 100 ms yield (line
\* 247) with processing still true; the second entry was enqueued during the
\* yield and started no drain.
C34_Witness ==
    /\ Len(reqs) = 2
    /\ reqs[1].fate \in {"processed", "dropped"}
    /\ reqs[2].fate = "queued"
    /\ Len(webhookQueue) = 1
    /\ Len(drains) = 1
    /\ drains[1].pc = "delay"
    /\ processing

\* C35: counter conservation. In every reachable state processed + failed
\* is at most received, and received is processed + failed plus the entries
\* waiting in the queue plus the entries in flight; when the queue is empty
\* and no drain runs, processed + failed = received.
C35_CounterConservation ==
    /\ stats.processed + stats.failed <= stats.received
    /\ stats.received
          = stats.processed + stats.failed + Len(webhookQueue) + Cardinality(InFlight)
    /\ Quiet => stats.processed + stats.failed = stats.received

\* One entry of each kind at once: one processed, one failed and dropped,
\* and a third one with the agent.
C35_Witness ==
    /\ stats.received = 3
    /\ stats.processed = 1
    /\ stats.failed = 1
    /\ Cardinality(InFlight) = 1
    /\ webhookQueue = <<>>

\* The step is a request to POST /webhooks/jobber that passed the signature
\* check and whose body JSON.parse rejects.
UnparseableStep ==
    /\ Len(reqs') = Len(reqs) + 1
    /\ reqs'[Len(reqs')].route = "jobber"
    /\ reqs'[Len(reqs')].sig = "valid"
    /\ reqs'[Len(reqs')].body = "garbage"

\* C36: a request to POST /webhooks/jobber whose body is not parseable JSON
\* is answered with status 500 and leaves the pipeline as it was: nothing is
\* enqueued, no drain is started, and received, byUser and byTopic (and the
\* other counters) keep their values; the request never becomes an entry.
C36_ParseErrorLeavesPipeline ==
    /\ [][UnparseableStep =>
            /\ reqs'[Len(reqs')].status = 500
            /\ webhookQueue' = webhookQueue
            /\ drains' = drains
            /\ processing' = processing
            /\ stats' = stats
            /\ \A j \in 1..Len(reqs) : reqs'[j] = reqs[j]
       ]_vars
    /\ [](\A i \in 1..Len(reqs) :
            reqs[i].body = "garbage" =>
                /\ reqs[i].status = 500
                /\ reqs[i].fate = "none"
                /\ reqs[i].attempts = 0)

\* An unparseable request was answered 500 while the pipeline was at rest:
\* nothing is counted, nothing is queued and no drain runs.
C36_Witness ==
    /\ Len(reqs) = 1
    /\ reqs[1].body = "garbage"
    /\ reqs[1].status = 500
    /\ stats.received = 0
    /\ Quiet

\* The job that the analysis fetched names one of the job types of the
\* quality-control rule in its title.
JobOfInspectedType ==
    /\ Analyzed
    /\ analysis.input.event.topic = "JOB_CREATE"
    /\ \E k \in 1..Len(rules[7].conditions.jobType) :
            includes(toLowerCase(analysis.input.api.entity.title),
                     rules[7].conditions.jobType[k])

HealthAnswered(i) ==
    /\ i <= Len(reqs)
    /\ reqs[i].route = "health"
    /\ reqs[i].status # 0

\* C38: getHealthStatus reports 'healthy', and /health answers 200, only
\* when it found no drain active; when processing is true as it takes its
\* checks, the processing check is 'busy', the overall status is 'degraded'
\* and /health answers 503, however short the queue and however healthy the
\* agent and the API.
C38_BusyIsDegraded ==
    /\ [][(Len(reqs') = Len(reqs) + 1 /\ reqs'[Len(reqs')].route = "health") =>
            /\ processing' = processing
            /\ reqs'[Len(reqs')].answer.processing
                    = (IF processing THEN "busy" ELSE "idle")
       ]_vars
    /\ [](\A i \in 1..MaxRequests :
            HealthAnswered(i) =>
                /\ reqs[i].answer.status \in {"healthy", "degraded"}
                /\ (reqs[i].status = 200) <=> (reqs[i].answer.status = "healthy")
                /\ (reqs[i].status = 503) <=> (reqs[i].answer.status = "degraded")
                /\ reqs[i].answer.status = "healthy"
                        => reqs[i].answer.checks.processing = "idle"
                /\ reqs[i].answer.checks.processing = "busy"
                        => (reqs[i].answer.status = "degraded" /\ reqs[i].status = 503))

\* A health check taken while a drain was running, with a short queue, a
\* healthy agent and a healthy API, was answered 503.
C38_Witness ==
    \E i \in 1..MaxRequests :
        /\ HealthAnswered(i)
        /\ reqs[i].status = 503
        /\ reqs[i].answer.checks
                = [server |-> "healthy", queue |-> "healthy", processing |-> "busy",
                   agent |-> "healthy", multiUser |-> "enabled", jobberAPI |-> "healthy"]

\* The calls that checkRateLimit has let through.
Admitted == { c \in 1..Len(callers) : callers[c].pc = "admitted" }

\* The times at which a window started: the construction, and every time
\* the counter was set to 0 (lines 584 and 592).
WindowStarts == {0} \cup { callers[c].at : c \in { a \in Admitted : callers[a].zeroed } }

AdmittedWithin(z) ==
    { c \in Admitted : callers[c].at >= z /\ callers[c].at <= z + WindowTicks }

\* C39: checkRateLimit lets at most maxRequests requests through within any
\* one rate-limit window, the window-length span that starts when the
\* counter is set to 0, for every interleaving of callers and of the timers
\* of those that wait for a reset; and the counter never exceeds
\* maxRequests.
C39_AtMostMaxPerWindow ==
    /\ rateLimiter.requests <= maxRequests
    /\ \A z \in WindowStarts : Cardinality(AdmittedWithin(z)) <= maxRequests

\* The part of C39 that holds: the counter never exceeds maxRequests.
C39_CounterBounded == rateLimiter.requests <= maxRequests

\* Every decision of the list is one that applyRules builds: the name, the
\* priority and the actions of a rule of the table.
FromRuleTable(decisions) ==
    \A i \in 1..Len(decisions) :
        \E k \in 1..Len(rules) :
            /\ decisions[i].rule = rules[k].name
            /\ decisions[i].actions = rules[k].actions

\* C40: every action name listed in the rule table is a key of the action
\* map of executeAction, what applyRules returns lists only such names, and
\* the dispatch of decisions that applyRules builds has no record with the
\* unknown-action error.
C40_RuleActionsResolve ==
    /\ \A k \in 1..Len(rules) : Range(rules[k].actions) \subseteq ActionNames
    /\ Analyzed => FromRuleTable(analysis.decisions)
    /\ (dispatch.called /\ FromRuleTable(dispatch.decisions)) =>
            \A i \in 1..Len(dispatch.results) :
                dispatch.results[i].error # "Unknown action"

\* The decisions of an analysis were dispatched with a context that has no
\* availableTechs: autoAssignTech failed with a TypeError, no action was
\* unknown, and notifyAssignment, after it, succeeded.
C40_Witness ==
    /\ Analyzed
    /\ dispatch.called
    /\ dispatch.decisions = analysis.decisions
    /\ \E i \in 1..Len(dispatch.results) :
            /\ dispatch.results[i].action = "autoAssignTech"
            /\ dispatch.results[i].error = "TypeError"
    /\ \E i \in 1..Len(dispatch.results) :
            /\ dispatch.results[i].action = "notifyAssignment"
            /\ dispatch.results[i].success

====
